---- MODULE Spec2Model ----
(***************************************************************************)
(* Verification model of the level-up-community-commands approval pipeline *)
(*                                                                         *)
(*   - ApprovalScoreCalculator   (calculate-approval-score.js, 3 weights)  *)
(*   - AISafetyChecker           (ai-safety-check.js)                      *)
(*   - CodeQLResultsProcessor    (process-codeql-results.js)               *)
(*   - CollectionOrganizer       (scripts/organize-collection.js)          *)
(*                                                                         *)
(* Every JSON file the scripts exchange is a record; a file that does not  *)
(* exist (loadJsonFile returns null) is the record Null.                   *)
(***************************************************************************)
EXTENDS Integers, Sequences, FiniteSets, TLC

VARIABLES
  issueData,        \* parsed issue data handed to the checker and the decision engine
  securityReport,   \* CodeQL security report (or Null, or Unset)
  aiSafetyReport,   \* AI safety report (or Null, or Unset while it is being produced)
  report,           \* approval report of calculateApprovalScore (or NoReport)
  githubToken,      \* AISafetyChecker: is GITHUB_TOKEN set
  checkStatus,      \* performSafetyCheck: "idle", "running", "awaiting", "done", "failed"
  checkIndex,       \* performSafetyCheck: loop variable i (0-based)
  safetyReport,     \* performSafetyCheck: the report being built
  promises,         \* callGitHubModelsAPI: per command, the request and its promise
  disk,             \* CollectionOrganizer: the files under the collections directory
  directories,      \* CollectionOrganizer: the entries of the collections directory
  clock,            \* the time of the last new Date()
  runs,             \* completed runs of organize-collection.js
  edits,            \* changes made to profile.json files outside the script
  lastRun,          \* history: the last run, while nothing else touched the store
  prevBadges,       \* history: per user, the badge ids the last run for them stored
  rawCommands,      \* PackageManager: the commands handed to createPackage
  pkg,              \* PackageManager: the package createPackage returned
  packageFile,      \* PackageManager: the parsed content of the exported file
  packageAltered,   \* history: how the file's command list was altered after export
  importResult,     \* PackageManager: what importPackage returned or threw
  procs,            \* concurrent runs of organize-collection.js: position and locals
  serialized,       \* are runs for the same user directory kept from overlapping
  startStore,       \* history: the store the runs started from
  override,         \* the maintainer-override label on the issue and who set it
  body,             \* the fields of the issue body the submission was parsed from
  cli               \* the last command-line run: tool, exit code and what it printed

engineVars  == <<issueData, securityReport, aiSafetyReport, report>>
checkerVars == <<githubToken, checkStatus, checkIndex, safetyReport, promises>>
organizerVars == <<disk, directories, clock, runs, edits, lastRun, prevBadges>>
packageVars == <<rawCommands, pkg, packageFile, packageAltered, importResult>>
concurrentVars == <<procs, serialized, startStore>>
pipelineVars == <<override, body>>
cliVars == <<cli>>

(***************************************************************************)
(* Bounds of the model.                                                    *)
(***************************************************************************)
MaxErrors   == 1     \* validation errors of an input
MaxWarnings == 2     \* validation warnings of an input
MaxFindings == 2     \* CodeQL results of a static-analysis input

Null     == [kind |-> "null"]
Unset    == [kind |-> "unset"]
NoReport == [kind |-> "none"]

Min(a, b) == IF a < b THEN a ELSE b
Max(a, b) == IF a > b THEN a ELSE b

RECURSIVE SumSeq(_)
SumSeq(s) == IF s = <<>> THEN 0 ELSE Head(s) + SumSeq(Tail(s))

SeqMap(Op(_), s) == [i \in 1..Len(s) |-> Op(s[i])]

(***************************************************************************)
(* Validation result (CollectionIssueParser).                              *)
(***************************************************************************)
\* variant: the score is not clamped
calculateValidationScore_unclamped(errorCount, warningCount, commandCount) ==
  LET base  == 100 - errorCount * 25 - warningCount * 10
      bonus == IF commandCount >= 3 THEN 5 ELSE 0
  IN  base + bonus

calculateValidationScore(errorCount, warningCount, commandCount) ==
  LET base  == 100 - errorCount * 25 - warningCount * 10
      bonus == IF commandCount >= 3 THEN 5 ELSE 0
  IN  Max(0, Min(100, base + bonus))

\* the record validateCollection returns: errors and warnings are kept by
\* their number, the only thing the decision engine reads of them
ValidationResult(errorCount, warningCount, commandCount) ==
  [valid    |-> errorCount = 0,
   errors   |-> errorCount,
   warnings |-> warningCount,
   score    |-> calculateValidationScore(errorCount, warningCount, commandCount)]

(***************************************************************************)
(* Risk ladder shared by the AI checker and the CodeQL processor.          *)
(***************************************************************************)
determineRiskLevel(score) ==
  IF score >= 90 THEN "LOW"
  ELSE IF score >= 70 THEN "MEDIUM"
  ELSE IF score >= 50 THEN "HIGH"
  ELSE "CRITICAL"

(***************************************************************************)
(* CodeQLResultsProcessor: a SARIF result is kept as its level and the     *)
(* category of its rule.  Deductions are counted in halves of a point      *)
(* (warning x performance = 2.5), Math.round rounds the half up.           *)
(***************************************************************************)
Levels        == {"error", "warning", "note"}
RuleCategories == {"security", "correctness", "performance", "other"}

securitySeverities(level) ==
  CASE level = "error"   -> 100
    [] level = "warning" -> 50
    [] level = "note"    -> 10
    [] OTHER             -> 10

ruleCategories(category) ==
  CASE category = "security"        -> 100
    [] category = "correctness"     -> 30
    [] category = "maintainability" -> 10
    [] category = "performance"     -> 5
    [] OTHER                        -> 10

\* twice the deduction of one issue: (severity * multiplier) / 100
Deduction2(issue) ==
  (securitySeverities(issue.severity) * ruleCategories(issue.category)) \div 50

calculateSecurityScore(issues) ==
  LET twice == 200 - SumSeq(SeqMap(Deduction2, issues))
  IN  Max(0, (twice + 1) \div 2)

CountWhere(s, P(_)) == Cardinality({i \in 1..Len(s) : P(s[i])})

processResults(issues) ==
  LET IsError(i)    == i.severity = "error"
      IsWarning(i)  == i.severity = "warning"
      IsNote(i)     == i.severity = "note"
      IsSecurity(i) == i.category = "security"
      score         == calculateSecurityScore(issues)
  IN  [kind          |-> "codeql",
       securityScore |-> score,
       riskLevel     |-> determineRiskLevel(score),
       summary       |-> [totalIssues    |-> Len(issues),
                          securityIssues |-> CountWhere(issues, IsSecurity),
                          errorCount     |-> CountWhere(issues, IsError),
                          warningCount   |-> CountWhere(issues, IsWarning),
                          noteCount      |-> CountWhere(issues, IsNote)],
       issues        |-> issues]

(***************************************************************************)
(* ApprovalScoreCalculator (three weights).                                *)
(* Weights are kept in tenths; Math.round rounds the half up.  For the     *)
(* validation scores calculateValidationScore produces (multiples of 5)    *)
(* the IEEE-754 sum 0.2v + 0.5s + 0.3a rounds as the exact sum does.       *)
(***************************************************************************)
weights    == [security |-> 5, aiSafety |-> 3, validation |-> 2]
thresholds == [autoApprove |-> 80, manualReview |-> 60, reject |-> 30]

\* variant: a score of 0 is taken for a missing report and the remaining
\* weights are renormalized
calculateWeightedScore_renormalized(scores) ==
  LET Present(k) == scores[k] > 0
      Part(k)    == IF Present(k) THEN scores[k] * weights[k] ELSE 0
      Weight(k)  == IF Present(k) THEN weights[k] ELSE 0
      total      == Part("validation") + Part("security") + Part("aiSafety")
      weight     == Weight("validation") + Weight("security") + Weight("aiSafety")
  IN  IF weight = 0 THEN 0 ELSE (2 * total + weight) \div (2 * weight)

calculateWeightedScore(scores) ==
  LET tenths == scores.validation * weights.validation
              + scores.security   * weights.security
              + scores.aiSafety   * weights.aiSafety
  IN  (tenths + 5) \div 10

IsNull(r) == r.kind = "null"

\* aiSafetyReport?.issues : the list, or undefined when the report is null or
\* carries no top-level issues field
AiIssuesDefined(ai) == ~IsNull(ai) /\ ai.hasIssues
AiIssuesSome(ai, severities) ==
  AiIssuesDefined(ai) /\ \E i \in 1..Len(ai.issues) : ai.issues[i].severity \in severities

RejectReason(overallScore) ==
  "Overall score (" \o ToString(overallScore) \o ") below rejection threshold ("
    \o ToString(thresholds.reject) \o ")"

blockingConditions(overallScore, issue, sec, ai) ==
  << [condition |-> issue.validation.errors > 0,
      reason    |-> "Validation errors detected"],
     [condition |-> ~IsNull(sec) /\ sec.summary.securityIssues > 0,
      reason    |-> "Security vulnerabilities detected by CodeQL"],
     [condition |-> AiIssuesSome(ai, {"CRITICAL"}),
      reason    |-> "Critical security issues detected by AI analysis"],
     [condition |-> ~IsNull(sec) /\ sec.riskLevel = "CRITICAL",
      reason    |-> "Critical security risk level (CodeQL)"],
     [condition |-> ~IsNull(ai) /\ ai.riskLevel = "CRITICAL",
      reason    |-> "Critical AI safety risk level"],
     [condition |-> overallScore < thresholds.reject,
      reason    |-> RejectReason(overallScore)] >>

\* variant: the last element whose condition holds
FindFirst_last(conds) ==
  IF \E i \in 1..Len(conds) : conds[i].condition
  THEN CHOOSE i \in 1..Len(conds) :
         conds[i].condition /\ \A j \in (i + 1)..Len(conds) : ~conds[j].condition
  ELSE 0

\* Array.prototype.find: index of the first element whose condition holds, 0 if none
FindFirst(conds) ==
  IF \E i \in 1..Len(conds) : conds[i].condition
  THEN CHOOSE i \in 1..Len(conds) :
         conds[i].condition /\ \A j \in 1..(i - 1) : ~conds[j].condition
  ELSE 0

\* variant: only CRITICAL findings of the AI report count
hasNoBlockingIssues_criticalOnly(sec, ai) ==
  LET codeqlBlocking == ~IsNull(sec) /\ sec.summary.errorCount > 0
      aiBlocking     == AiIssuesSome(ai, {"CRITICAL"})
  IN  ~codeqlBlocking /\ ~aiBlocking

hasNoBlockingIssues(sec, ai) ==
  LET codeqlBlocking == ~IsNull(sec) /\ sec.summary.errorCount > 0
      aiBlocking     == AiIssuesSome(ai, {"CRITICAL", "HIGH"})
  IN  ~codeqlBlocking /\ ~aiBlocking

InfoRec(message) == [priority |-> "INFO", message |-> message]

determineApprovalStatus(rep, issue, sec, ai) ==
  LET overallScore == rep.overallScore
      conds        == blockingConditions(overallScore, issue, sec, ai)
      first        == FindFirst(conds)
      codeqlPassed == ~IsNull(sec) /\ sec.securityScore >= 80
      aiPassed     == ~IsNull(ai) /\ ai.safetyScore >= 75 /\ ai.autoApprove = TRUE
      confidence   ==
        IF codeqlPassed /\ aiPassed
        THEN "Passed both CodeQL and AI validation with high confidence"
        ELSE IF codeqlPassed
        THEN "Auto-approved based on CodeQL analysis (AI validation supplementary)"
        ELSE "Auto-approved based on AI analysis (CodeQL provided additional context)"
  IN  IF first # 0
      THEN [rep EXCEPT !.autoApprove = FALSE,
                       !.recommendation = "REJECT",
                       !.details.issues = Append(@, conds[first].reason)]
      ELSE IF overallScore >= thresholds.autoApprove
      THEN IF (codeqlPassed \/ aiPassed) /\ hasNoBlockingIssues(sec, ai)
           THEN [rep EXCEPT !.autoApprove = TRUE,
                            !.recommendation = "AUTO_APPROVE",
                            !.details.recommendations = Append(@, InfoRec(confidence))]
           ELSE [rep EXCEPT !.autoApprove = FALSE,
                            !.recommendation = "MANUAL_REVIEW",
                            !.details.issues = Append(@,
                               "Score meets threshold but validation conditions not satisfied")]
      ELSE IF overallScore >= thresholds.manualReview
      THEN [rep EXCEPT !.autoApprove = FALSE, !.recommendation = "MANUAL_REVIEW"]
      ELSE [rep EXCEPT !.autoApprove = FALSE,
                       !.recommendation = "REJECT",
                       !.details.issues = Append(@,
                          "Score (" \o ToString(overallScore)
                            \o ") below manual review threshold ("
                            \o ToString(thresholds.manualReview) \o ")")]

\* variant: the banner follows the overall score
generateFeedback_scoreBanner(rep, issue, sec, ai) ==
  LET SevCount(sev) == Cardinality({i \in 1..Len(ai.issues) : ai.issues[i].severity = sev})
      validationPart ==
        (IF issue.validation.errors > 0
           THEN <<"Validation Issues:" \o ToString(issue.validation.errors)>> ELSE <<>>)
        \o (IF issue.validation.warnings > 0
           THEN <<"Validation Warnings:" \o ToString(issue.validation.warnings)>> ELSE <<>>)
      securityPart ==
        IF ~IsNull(sec) /\ sec.summary.securityIssues > 0
        THEN <<"Security Issues (CodeQL):" \o ToString(sec.summary.securityIssues),
               "Risk level: " \o sec.riskLevel>>
        ELSE <<>>
      aiPart ==
        IF IsNull(ai) THEN <<>>
        ELSE IF AiIssuesDefined(ai) /\ Len(ai.issues) > 0
        THEN <<"AI Safety Analysis:",
               "Safety Score: " \o ToString(ai.safetyScore),
               "Risk level: " \o ai.riskLevel,
               "Issues found: " \o ToString(Len(ai.issues))>>
             \o (IF SevCount("CRITICAL") > 0
                   THEN <<"Critical Issues:" \o ToString(SevCount("CRITICAL"))>> ELSE <<>>)
             \o (IF SevCount("HIGH") > 0
                   THEN <<"High Priority Issues:" \o ToString(SevCount("HIGH"))>> ELSE <<>>)
             \o (IF SevCount("MEDIUM") > 0
                   THEN <<"Medium Priority Issues:" \o ToString(SevCount("MEDIUM"))>> ELSE <<>>)
        ELSE <<"AI Safety Analysis:",
               "No security issues detected",
               "Safety Score: " \o ToString(ai.safetyScore),
               "Risk level: " \o ai.riskLevel>>
      suggestions ==
        <<"Improvement Suggestions:">>
        \o (IF rep.scores.validation < 90 THEN <<"Improve code documentation">> ELSE <<>>)
        \o (IF rep.scores.security < 90 THEN <<"Address security concerns">> ELSE <<>>)
        \o (IF rep.scores.aiSafety < 90 THEN <<"Review and fix security patterns">> ELSE <<>>)
      banner ==
        IF rep.overallScore >= thresholds.autoApprove
        THEN "Collection approved for automatic processing!"
        ELSE "Collection requires manual review before approval."
  IN  <<banner>> \o validationPart \o securityPart \o aiPart \o suggestions

\* the lines generateFeedback pushes, each kept as a tag (counts included
\* where the text interpolates them); the banner is put in front last
generateFeedback(rep, issue, sec, ai) ==
  LET SevCount(sev) == Cardinality({i \in 1..Len(ai.issues) : ai.issues[i].severity = sev})
      validationPart ==
        (IF issue.validation.errors > 0
           THEN <<"Validation Issues:" \o ToString(issue.validation.errors)>> ELSE <<>>)
        \o (IF issue.validation.warnings > 0
           THEN <<"Validation Warnings:" \o ToString(issue.validation.warnings)>> ELSE <<>>)
      securityPart ==
        IF ~IsNull(sec) /\ sec.summary.securityIssues > 0
        THEN <<"Security Issues (CodeQL):" \o ToString(sec.summary.securityIssues),
               "Risk level: " \o sec.riskLevel>>
        ELSE <<>>
      aiPart ==
        IF IsNull(ai) THEN <<>>
        ELSE IF AiIssuesDefined(ai) /\ Len(ai.issues) > 0
        THEN <<"AI Safety Analysis:",
               "Safety Score: " \o ToString(ai.safetyScore),
               "Risk level: " \o ai.riskLevel,
               "Issues found: " \o ToString(Len(ai.issues))>>
             \o (IF SevCount("CRITICAL") > 0
                   THEN <<"Critical Issues:" \o ToString(SevCount("CRITICAL"))>> ELSE <<>>)
             \o (IF SevCount("HIGH") > 0
                   THEN <<"High Priority Issues:" \o ToString(SevCount("HIGH"))>> ELSE <<>>)
             \o (IF SevCount("MEDIUM") > 0
                   THEN <<"Medium Priority Issues:" \o ToString(SevCount("MEDIUM"))>> ELSE <<>>)
        ELSE <<"AI Safety Analysis:",
               "No security issues detected",
               "Safety Score: " \o ToString(ai.safetyScore),
               "Risk level: " \o ai.riskLevel>>
      suggestions ==
        <<"Improvement Suggestions:">>
        \o (IF rep.scores.validation < 90 THEN <<"Improve code documentation">> ELSE <<>>)
        \o (IF rep.scores.security < 90 THEN <<"Address security concerns">> ELSE <<>>)
        \o (IF rep.scores.aiSafety < 90 THEN <<"Review and fix security patterns">> ELSE <<>>)
      banner ==
        IF rep.autoApprove
        THEN "Collection approved for automatic processing!"
        ELSE "Collection requires manual review before approval."
  IN  <<banner>> \o validationPart \o securityPart \o aiPart \o suggestions

generateRecommendations(rep) ==
  (CASE rep.recommendation = "AUTO_APPROVE" ->
          <<[priority |-> "INFO",
             message  |-> "Collection will be automatically processed and published"]>>
     [] rep.recommendation = "MANUAL_REVIEW" ->
          <<[priority |-> "HIGH", message |-> "Schedule manual review with maintainer"]>>
     [] rep.recommendation = "REJECT" ->
          <<[priority |-> "CRITICAL",
             message  |-> "Address critical issues before resubmission"]>>
     [] OTHER -> <<>>)
  \o (IF rep.scores.validation < 80
        THEN <<[priority |-> "MEDIUM", message |-> "Improve code quality and documentation"]>>
        ELSE <<>>)
  \o (IF rep.scores.security < 80
        THEN <<[priority |-> "HIGH", message |-> "Address security vulnerabilities"]>>
        ELSE <<>>)
  \o (IF rep.scores.aiSafety < 80
        THEN <<[priority |-> "HIGH", message |-> "Review and fix security patterns"]>>
        ELSE <<>>)

\* issueData.validation?.score || 0, securityReport?.securityScore || 0, ...
calculateApprovalScore(issue, sec, ai) ==
  LET scores  == [validation |-> issue.validation.score,
                  security   |-> IF IsNull(sec) THEN 0 ELSE sec.securityScore,
                  aiSafety   |-> IF IsNull(ai) THEN 0 ELSE ai.safetyScore]
      initial == [kind           |-> "report",
                  overallScore   |-> calculateWeightedScore(scores),
                  autoApprove    |-> FALSE,
                  recommendation |-> "",
                  feedback       |-> <<>>,
                  scores         |-> scores,
                  details        |-> [issues |-> <<>>, warnings |-> <<>>,
                                      recommendations |-> <<>>]]
      decided == determineApprovalStatus(initial, issue, sec, ai)
  IN  [decided EXCEPT !.feedback = generateFeedback(decided, issue, sec, ai),
                      !.details.recommendations = generateRecommendations(decided)]

(***************************************************************************)
(* Text.  A name is a sequence of one-character strings, a command's code  *)
(* a sequence of lexical fragments; Join gives the JavaScript string.      *)
(***************************************************************************)
RECURSIVE Join(_)
Join(s) == IF s = <<>> THEN "" ELSE Head(s) \o Join(Tail(s))

RECURSIVE JoinWith(_, _)
JoinWith(s, sep) ==
  IF s = <<>> THEN ""
  ELSE IF Len(s) = 1 THEN s[1]
  ELSE s[1] \o sep \o JoinWith(Tail(s), sep)

RECURSIVE SelectIdx(_, _, _)
\* the elements of s that satisfy Test, in order (Array.prototype.filter)
SelectIdx(s, Test(_), i) ==
  IF i > Len(s) THEN <<>>
  ELSE (IF Test(s[i]) THEN <<s[i]>> ELSE <<>>) \o SelectIdx(s, Test, i + 1)

Filter(s, Test(_)) == SelectIdx(s, Test, 1)

RECURSIVE Flatten(_)
Flatten(ss) == IF ss = <<>> THEN <<>> ELSE Head(ss) \o Flatten(Tail(ss))

\* command.name || `Command ${index + 1}`   (index is 0-based in the code)
CommandDisplayName(command, index) ==
  IF command.name # <<>> THEN Join(command.name) ELSE "Command " \o ToString(index + 1)

(***************************************************************************)
(* AISafetyChecker.simulateAIAnalysis: the pattern scanner.  A pattern is  *)
(* kept with the set of code fragments its regular expression matches.     *)
(***************************************************************************)
dangerousPatterns ==
  << [id |-> "eval",          severity |-> "CRITICAL", category |-> "Code Injection",
      points |-> 50, matches |-> {"eval("}],
     [id |-> "Function",      severity |-> "CRITICAL", category |-> "Code Injection",
      points |-> 50, matches |-> {"new Function(", "function ("}],
     [id |-> "setTimeout",    severity |-> "HIGH",     category |-> "Code Injection",
      points |-> 30, matches |-> {"setTimeout('x'"}],
     [id |-> "setInterval",   severity |-> "HIGH",     category |-> "Code Injection",
      points |-> 30, matches |-> {"setInterval('x'"}],
     [id |-> "document.write", severity |-> "HIGH",    category |-> "XSS Risk",
      points |-> 25, matches |-> {"document.write"}],
     [id |-> "innerHTML",     severity |-> "MEDIUM",   category |-> "XSS Risk",
      points |-> 15, matches |-> {"innerHTML ="}],
     [id |-> "password",      severity |-> "CRITICAL", category |-> "Hardcoded Credentials",
      points |-> 40, matches |-> {"password = 'x'"}],
     [id |-> "api-key",       severity |-> "CRITICAL", category |-> "Hardcoded Credentials",
      points |-> 40, matches |-> {"api_key = 'x'"}],
     [id |-> "secret",        severity |-> "CRITICAL", category |-> "Hardcoded Credentials",
      points |-> 40, matches |-> {"secret = 'x'"}],
     [id |-> "token",         severity |-> "HIGH",     category |-> "Hardcoded Credentials",
      points |-> 30, matches |-> {"token = 'x'"}],
     [id |-> "url",           severity |-> "MEDIUM",   category |-> "External Requests",
      points |-> 20, matches |-> {"https://example.org"}],
     [id |-> "fetch",         severity |-> "MEDIUM",   category |-> "External Requests",
      points |-> 15, matches |-> {"fetch("}],
     [id |-> "XMLHttpRequest", severity |-> "MEDIUM",  category |-> "External Requests",
      points |-> 15, matches |-> {"XMLHttpRequest"}],
     [id |-> "ajax",          severity |-> "MEDIUM",   category |-> "External Requests",
      points |-> 15, matches |-> {".ajax("}],
     [id |-> "localStorage",  severity |-> "LOW",      category |-> "Data Storage",
      points |-> 10, matches |-> {"localStorage"}],
     [id |-> "sessionStorage", severity |-> "LOW",     category |-> "Data Storage",
      points |-> 10, matches |-> {"sessionStorage"}],
     [id |-> "btoa",          severity |-> "LOW",      category |-> "Data Encoding",
      points |-> 5,  matches |-> {"btoa(", "atob("}] >>

positivePatterns ==
  << [points |-> 5, matches |-> {"try { } catch ("}],
     [points |-> 3, matches |-> {"openAlertDialog", "openErrorDialog", "setFormNotification"}],
     [points |-> 2, matches |-> {"'use strict'"}] >>

\* the issues one pattern contributes: one per match, in order of occurrence
PatternIssues(pat, code) ==
  LET Hit(fragment) == fragment \in pat.matches
      ToIssue(fragment) == [severity |-> pat.severity, category |-> pat.category,
                            points |-> pat.points]
  IN  SeqMap(ToIssue, Filter(code, Hit))

ScanIssues(code) ==
  Flatten([p \in 1..Len(dangerousPatterns) |-> PatternIssues(dangerousPatterns[p], code)])

PositivePoints(code) ==
  LET Pts(pat) == IF \E i \in 1..Len(code) : code[i] \in pat.matches THEN pat.points ELSE 0
  IN  SumSeq(SeqMap(Pts, positivePatterns))

generateCommandSummary(issues) ==
  LET IsCritical(i) == i.severity = "CRITICAL"
      IsHigh(i)     == i.severity = "HIGH"
  IN  IF issues = <<>> THEN "No security issues detected. Code appears safe."
      ELSE IF CountWhere(issues, IsCritical) > 0
        THEN "Critical security issues detected. Manual review required."
      ELSE IF CountWhere(issues, IsHigh) > 0
        THEN "High-severity issues detected. Consider addressing before approval."
      ELSE "Minor security concerns detected. Generally safe but could be improved."

simulateAIAnalysis(command, index, code) ==
  LET found       == ScanIssues(code)
      Points(i)   == i.points
      raw         == 100 - SumSeq(SeqMap(Points, found)) + PositivePoints(code)
      safetyScore == Max(0, Min(100, raw))
      IsCritical(i) == i.severity = "CRITICAL"
      Strip(i)    == [severity |-> i.severity, category |-> i.category]
      issues      == SeqMap(Strip, found)
  IN  [commandIndex |-> index,
       commandName  |-> CommandDisplayName(command, index),
       safetyScore  |-> safetyScore,
       riskLevel    |-> determineRiskLevel(safetyScore),
       issues       |-> issues,
       summary      |-> generateCommandSummary(issues),
       autoApprove  |-> safetyScore >= 75 /\ CountWhere(issues, IsCritical) = 0]

(***************************************************************************)
(* AISafetyChecker.callGitHubModelsAPI: what the 'end' handler does with a *)
(* response.  A response is its status code and its body; a body that      *)
(* parses down to an analysis object carries that object, whose fields may *)
(* be missing or of the wrong type.  An element of analysis.issues is an   *)
(* object with a severity, or JSON null.                                   *)
(***************************************************************************)
IsNullIssue(issue) == "kind" \in DOMAIN issue

\* TRUE when the handler's try block throws (the promise is rejected)
ResponseRejected(resp) ==
  \/ resp.status # 200
  \/ resp.body # "analysis"              \* unparsable, no choices, no JSON object
  \/ ~resp.analysis.scoreIsNumber
  \/ resp.analysis.riskLevel = ""
  \/ ~resp.analysis.issuesIsArray

\* the value the promise is resolved with
ResolvedAnalysis(resp) ==
  [safetyScore |-> Max(0, Min(100, resp.analysis.safetyScore)),
   riskLevel   |-> resp.analysis.riskLevel,
   issues      |-> resp.analysis.issues,
   summary     |-> "ai",
   autoApprove |-> resp.analysis.autoApprove]

\* analyzeCommand after the await: the AI response with the command's
\* metadata, or the pattern scanner's report when the promise was rejected.
\* codeToAnalyze is the code itself: every code of the model is shorter than
\* maxCodeLength.
AnalyzeCommandResult(command, index, promise) ==
  IF promise.state = "resolved"
  THEN [commandIndex |-> index,
        commandName  |-> CommandDisplayName(command, index),
        safetyScore  |-> promise.value.safetyScore,
        riskLevel    |-> promise.value.riskLevel,
        issues       |-> promise.value.issues,
        summary      |-> promise.value.summary,
        autoApprove  |-> promise.value.autoApprove]
  ELSE simulateAIAnalysis(command, index, command.code)

NoCodeReport(command, index) ==
  [commandIndex |-> index,
   commandName  |-> CommandDisplayName(command, index),
   safetyScore  |-> 100,
   riskLevel    |-> "LOW",
   issues       |-> <<>>,
   summary      |-> "No code to analyze",
   autoApprove  |-> TRUE]

AnalysisErrorReport(command, index) ==
  [commandIndex |-> index,
   commandName  |-> CommandDisplayName(command, index),
   safetyScore  |-> 0,
   riskLevel    |-> "CRITICAL",
   issues       |-> <<[severity |-> "CRITICAL", category |-> "Analysis Error"]>>,
   summary      |-> "Analysis failed",
   autoApprove  |-> FALSE]

\* the issue-counting loop of performSafetyCheck over one command report:
\* counts up to the first element whose severity cannot be read, where the
\* forEach callback throws
RECURSIVE AggregateIssues(_, _, _)
AggregateIssues(rep, issues, k) ==
  IF k > Len(issues) THEN [rep |-> rep, threw |-> FALSE]
  ELSE LET counted == [rep EXCEPT !.totalIssues = @ + 1]
       IN  IF IsNullIssue(issues[k]) THEN [rep |-> counted, threw |-> TRUE]
           ELSE AggregateIssues(
                  CASE issues[k].severity = "CRITICAL" ->
                         [counted EXCEPT !.criticalIssues = @ + 1]
                    [] issues[k].severity = "HIGH" ->
                         [counted EXCEPT !.highIssues = @ + 1]
                    [] issues[k].severity = "MEDIUM" ->
                         [counted EXCEPT !.mediumIssues = @ + 1]
                    [] issues[k].severity = "LOW" ->
                         [counted EXCEPT !.lowIssues = @ + 1]
                    [] OTHER -> counted,
                  issues, k + 1)

\* one iteration of the loop of performSafetyCheck once analyzeCommand has
\* returned commandReport: the try block, and the catch block when it throws
PushCommandReport(rep, command, index, commandReport) ==
  LET pushed  == [rep EXCEPT !.commandReports = Append(@, commandReport)]
      counted == AggregateIssues(pushed, commandReport.issues, 1)
  IN  IF ~counted.threw THEN counted.rep
      ELSE [counted.rep EXCEPT
              !.commandReports = Append(@, AnalysisErrorReport(command, index)),
              !.criticalIssues = @ + 1,
              !.totalIssues = @ + 1]

InitialSafetyReport ==
  [kind |-> "ai", safetyScore |-> 100, riskLevel |-> "LOW", autoApprove |-> FALSE,
   hasIssues |-> FALSE, issues |-> <<>>,
   commandReports |-> <<>>, totalIssues |-> 0, criticalIssues |-> 0,
   highIssues |-> 0, mediumIssues |-> 0, lowIssues |-> 0]

\* variant: the collection is auto-approved on its mean score and its
\* CRITICAL count alone
calculateOverallScores_meanOnly(rep) ==
  LET n          == Len(rep.commandReports)
      Score(c)   == c.safetyScore
      totalScore == SumSeq(SeqMap(Score, rep.commandReports))
      mean       == (2 * totalScore + n) \div (2 * n)
  IN  IF n = 0
      THEN [rep EXCEPT !.safetyScore = 0, !.riskLevel = "CRITICAL", !.autoApprove = FALSE]
      ELSE [rep EXCEPT
              !.safetyScore = mean,
              !.riskLevel   = determineRiskLevel(mean),
              !.autoApprove = mean >= 75 /\ rep.criticalIssues = 0]

calculateOverallScores(rep) ==
  LET n          == Len(rep.commandReports)
      Score(c)   == c.safetyScore
      totalScore == SumSeq(SeqMap(Score, rep.commandReports))
      mean       == (2 * totalScore + n) \div (2 * n)      \* Math.round(totalScore / n)
  IN  IF n = 0
      THEN [rep EXCEPT !.safetyScore = 0, !.riskLevel = "CRITICAL", !.autoApprove = FALSE]
      ELSE [rep EXCEPT
              !.safetyScore = mean,
              !.riskLevel   = determineRiskLevel(mean),
              !.autoApprove = /\ mean >= 75
                              /\ rep.criticalIssues = 0
                              /\ \A k \in 1..n : rep.commandReports[k].autoApprove]

(***************************************************************************)
(* The rule-based AISafetyChecker (scripts/issue-to-command.js): one issue *)
(* per pattern that matches a command's code, whatever the number of       *)
(* matches.                                                                *)
(***************************************************************************)
ruleBasedPatterns ==
  << [severity |-> "HIGH",   category |-> "DANGEROUS_FUNCTION", matches |-> {"eval("}],
     [severity |-> "HIGH",   category |-> "DANGEROUS_FUNCTION",
      matches |-> {"new Function(", "function ("}],
     [severity |-> "MEDIUM", category |-> "DANGEROUS_FUNCTION", matches |-> {"document.write"}],
     [severity |-> "MEDIUM", category |-> "DANGEROUS_FUNCTION", matches |-> {"innerHTML ="}],
     [severity |-> "MEDIUM", category |-> "DANGEROUS_FUNCTION", matches |-> {".exec("}],
     [severity |-> "HIGH",   category |-> "DANGEROUS_FUNCTION", matches |-> {"new ActiveXObject"}],
     [severity |-> "LOW",    category |-> "DANGEROUS_FUNCTION", matches |-> {"window.open"}],
     [severity |-> "LOW",    category |-> "DANGEROUS_FUNCTION", matches |-> {"alert("}],
     [severity |-> "MEDIUM", category |-> "SUSPICIOUS_PATTERN", matches |-> {"password = 'x'"}],
     [severity |-> "MEDIUM", category |-> "SUSPICIOUS_PATTERN", matches |-> {"token = 'x'"}],
     [severity |-> "MEDIUM", category |-> "SUSPICIOUS_PATTERN", matches |-> {"secret = 'x'"}],
     [severity |-> "MEDIUM", category |-> "SUSPICIOUS_PATTERN", matches |-> {"api_key = 'x'"}],
     [severity |-> "LOW",    category |-> "SUSPICIOUS_PATTERN", matches |-> {"http://example.org"}],
     [severity |-> "LOW",    category |-> "SUSPICIOUS_PATTERN", matches |-> {".cookie"}] >>

analyzeCommandCode(code) ==
  LET Matches(pat) == \E i \in 1..Len(code) : code[i] \in pat.matches
      ToIssue(pat) == [severity |-> pat.severity, category |-> pat.category]
  IN  SeqMap(ToIssue, Filter(ruleBasedPatterns, Matches))

analyzeSafety(issue) ==
  LET commands   == issue.commands
      issues     == Flatten([k \in 1..Len(commands) |->
                               IF commands[k].code = <<>> THEN <<>>
                               ELSE analyzeCommandCode(commands[k].code)])
      Deduct(i)  == CASE i.severity = "HIGH"   -> 25
                      [] i.severity = "MEDIUM" -> 15
                      [] i.severity = "LOW"    -> 5
                      [] OTHER                 -> 0
      totalScore == Max(0, 100 - SumSeq(SeqMap(Deduct, issues)))
      riskLevel  == IF totalScore < 30 THEN "CRITICAL"
                    ELSE IF totalScore < 60 THEN "HIGH"
                    ELSE IF totalScore < 80 THEN "MEDIUM"
                    ELSE "LOW"
      Severe(i)  == i.severity \in {"HIGH", "CRITICAL"}
  IN  [InitialSafetyReport EXCEPT
         !.safetyScore = totalScore,
         !.riskLevel   = riskLevel,
         !.autoApprove = totalScore >= 75 /\ CountWhere(issues, Severe) = 0,
         !.hasIssues   = TRUE,
         !.issues      = issues]

(***************************************************************************)
(* CollectionOrganizer (scripts/organize-collection.js).                   *)
(* The collections directory is a function from path to file content and   *)
(* the set of user directories; `now` is the clock new Date() reads.       *)
(***************************************************************************)
GARBAGE == [kind |-> "garbage"]       \* a file that JSON.parse rejects

Exists(fs, path) == path \in DOMAIN fs

\* fs.writeFileSync(path, content)
WriteFile(fs, path, content) ==
  [q \in DOMAIN fs \cup {path} |-> IF q = path THEN content ELSE fs[q]]

\* crypto.createHash('md5').update(data).digest('hex').substring(0, 8), as
\* MD5 computes it on the strings the model hashes
Md5Hex8(data) ==
  CASE data = "Form Tools-alice-1" -> "97b19a4a"
    [] data = "Form Tools-alice-2" -> "e1576aa8"
    [] data = "Form Tools-bob-3" -> "013f6223"
    [] data = "form tools!-alice-1" -> "1da3c91f"
    [] data = "form tools!-alice-2" -> "e99ec431"
    [] data = "form tools!-bob-3" -> "60ec59c0"
    [] data = "Grid Kit-alice-1" -> "23d4d7ee"
    [] data = "Grid Kit-alice-2" -> "bcd35df4"
    [] data = "Grid Kit-bob-3" -> "f48fb6ff"
    [] data = "Seed 1-alice-101" -> "ec1ca8c4"
    [] data = "Seed 2-alice-102" -> "79189153"
    [] data = "Seed 3-alice-103" -> "fc0bb3fb"
    [] data = "Seed 4-alice-104" -> "56e1030a"
    [] data = "Open Form-Xrm.Page" -> "f35ce6e3"
    [] data = "open form!-fetch(" -> "2e8769a5"
    [] data = "Close-Xrm.Page" -> "fc29645e"
    [] data = "cmd-0-localStorage" -> "fe9a462a"
    [] data = "cmd-1-localStorage" -> "4b9d2426"
    [] data = "cmd-2-localStorage" -> "80bf2075"
    [] data = "cmd-3-localStorage" -> "ec87c41a"
    [] data = "Open FormXrm.Pagealice" -> "abf107a9"
    [] data = "CloseXrm.Pageundefined" -> "29f7ad0c"
    [] data = "undefinedfetch(undefined" -> "a229b5f4"
    [] data = "Emptyundefinedundefined" -> "237c2286"
    [] data = "Long-/*================================================================================================*/" -> "fc4c5ec8"

\* length of a code fragment in characters
FragmentLength(fragment) ==
  CASE fragment = "Xrm.Page"     -> 8
    [] fragment = "fetch("       -> 6
    [] fragment = "eval("        -> 5
    [] fragment = "localStorage" -> 12
    [] fragment = "/*================================================================================================*/" -> 100

\* code.substring(0, n) for a code cut at a fragment boundary
RECURSIVE Substring(_, _)
Substring(code, n) ==
  IF code = <<>> \/ FragmentLength(Head(code)) > n THEN <<>>
  ELSE <<Head(code)>> \o Substring(Tail(code), n - FragmentLength(Head(code)))

generateCollectionId(issue) ==
  Md5Hex8(Join(issue.metadata.name) \o "-" \o issue.metadata.submittedBy
            \o "-" \o ToString(issue.issueInfo.number))

\* index is 0-based
generateCommandId(command, index) ==
  Md5Hex8((IF command.name # <<>> THEN Join(command.name) ELSE "cmd-" \o ToString(index))
            \o "-" \o Join(Substring(command.code, 100)))

UpperCase == <<"A", "B", "C", "D", "E", "F", "G", "H", "I", "J", "K", "L", "M",
               "N", "O", "P", "Q", "R", "S", "T", "U", "V", "W", "X", "Y", "Z">>
LowerCase == <<"a", "b", "c", "d", "e", "f", "g", "h", "i", "j", "k", "l", "m",
               "n", "o", "p", "q", "r", "s", "t", "u", "v", "w", "x", "y", "z">>
Digits    == {"0", "1", "2", "3", "4", "5", "6", "7", "8", "9"}
WhiteSpace == {" "}

toLowerCase(c) ==
  IF \E k \in 1..26 : UpperCase[k] = c
  THEN LowerCase[CHOOSE k \in 1..26 : UpperCase[k] = c]
  ELSE c

\* .replace(/\s+/g, '-') : every maximal run of white space becomes one '-'
RECURSIVE ReplaceSpaces(_)
ReplaceSpaces(chars) ==
  IF chars = <<>> THEN <<>>
  ELSE IF Head(chars) \in WhiteSpace
  THEN IF Len(chars) > 1 /\ chars[2] \in WhiteSpace
       THEN ReplaceSpaces(Tail(chars))
       ELSE <<"-">> \o ReplaceSpaces(Tail(chars))
  ELSE <<Head(chars)>> \o ReplaceSpaces(Tail(chars))

sanitizeFileName(name) ==
  LET lower   == [k \in 1..Len(name) |-> toLowerCase(name[k])]
      Allowed(c) == \/ \E k \in 1..26 : LowerCase[k] = c
                    \/ c \in Digits \/ c \in WhiteSpace \/ c = "-"
      kept    == SelectIdx(lower, Allowed, 1)
      dashed  == ReplaceSpaces(kept)
  IN  SubSeq(dashed, 1, Min(50, Len(dashed)))

\* the characters of `command-${index + 1}` (index is 0-based)
DefaultCommandName(index) ==
  <<"c", "o", "m", "m", "a", "n", "d", "-", ToString(index + 1)>>

CommandFileName(command, index) ==
  Join(sanitizeFileName(IF command.name # <<>> THEN command.name
                        ELSE DefaultCommandName(index))) \o ".js"

generateLevelUpImport(collectionData, now) ==
  [kind       |-> "levelup",
   exportedAt |-> now,
   collection |-> [name |-> collectionData.name, description |-> collectionData.description,
                   author |-> collectionData.author, version |-> collectionData.version],
   commands   |-> [k \in 1..Len(collectionData.commands) |->
                     [name |-> collectionData.commands[k].name,
                      code |-> collectionData.commands[k].code]]]

generateCommandFileContent(command, collectionMetadata, commandId) ==
  [kind         |-> "command",
   commandName  |-> command.name,
   collection   |-> collectionMetadata.name,
   collectionId |-> collectionMetadata.id,
   commandId    |-> commandId,
   processedAt  |-> collectionMetadata.processedAt,
   code         |-> command.code]

\* the forEach that writes one file per command, in order
RECURSIVE WriteCommandFiles(_, _, _, _, _)
WriteCommandFiles(fs, commandsDir, commands, collectionMetadata, k) ==
  IF k > Len(commands) THEN fs
  ELSE WriteCommandFiles(
         WriteFile(fs, commandsDir \o "/" \o CommandFileName(commands[k], k - 1),
                   generateCommandFileContent(commands[k], collectionMetadata,
                                              generateCommandId(commands[k], k - 1))),
         commandsDir, commands, collectionMetadata, k + 1)

\* the collectionMetadata object generateCollectionFiles builds
CollectionMetadata(issue, now) ==
  [kind         |-> "collection",
   id           |-> generateCollectionId(issue),
   name         |-> issue.metadata.name,
   description  |-> issue.metadata.description,
   category     |-> issue.metadata.category,
   tags         |-> issue.metadata.tags,
   author       |-> issue.metadata.author,
   submittedBy  |-> issue.metadata.submittedBy,
   submittedAt  |-> issue.metadata.submittedAt,
   processedAt  |-> now,
   commandCount |-> Len(issue.commands),
   version      |-> "1.0.0",
   source       |-> [issueNumber |-> issue.issueInfo.number],
   stats        |-> [downloads |-> 0, rating |-> 0, votes |-> 0]]

\* { ...collectionMetadata, commands: issueData.commands.map(...) }
CollectionData(issue, now) ==
  [c \in DOMAIN CollectionMetadata(issue, now) \cup {"commands"} |->
     IF c = "commands"
     THEN [k \in 1..Len(issue.commands) |->
             [id        |-> generateCommandId(issue.commands[k], k - 1),
              name      |-> issue.commands[k].name,
              code      |-> issue.commands[k].code,
              createdAt |-> now]]
     ELSE CollectionMetadata(issue, now)[c]]

CollectionFileName(issue) == Join(sanitizeFileName(issue.metadata.name)) \o ".json"

LevelUpImportPath(issue, collectionsDir) ==
  collectionsDir \o "/" \o Join(sanitizeFileName(issue.metadata.name)) \o "-levelup.json"

\* what generateCollectionFiles returns
CollectionInfo(issue, collectionsDir) ==
  [collectionId       |-> generateCollectionId(issue),
   collectionPath     |-> collectionsDir \o "/" \o CollectionFileName(issue),
   totalCommands      |-> Len(issue.commands),
   collectionFileName |-> CollectionFileName(issue)]

generateCollectionFiles(fs, issue, collectionsDir, commandsDir, now) ==
  LET fs1 == WriteFile(fs, collectionsDir \o "/" \o CollectionFileName(issue),
                       CollectionData(issue, now))
      fs2 == WriteCommandFiles(fs1, commandsDir, issue.commands,
                               CollectionMetadata(issue, now), 1)
      fs3 == WriteFile(fs2, LevelUpImportPath(issue, collectionsDir),
                       generateLevelUpImport(CollectionData(issue, now), now))
  IN  [fs |-> fs3, info |-> CollectionInfo(issue, collectionsDir)]

Badge(id, now) == [id |-> id, awardedAt |-> now]

HasBadge(profile, id) == \E k \in 1..Len(profile.badges) : profile.badges[k].id = id

\* variant: the badge list is rebuilt from the current stats
awardBadges_rebuilt(profile, now) ==
  [profile EXCEPT !.badges =
     (IF profile.stats.totalCollections >= 1 THEN <<Badge("first-collection", now)>> ELSE <<>>)
     \o (IF profile.stats.totalCollections >= 5
           THEN <<Badge("prolific-contributor", now)>> ELSE <<>>)
     \o (IF profile.stats.totalCommands >= 20
           THEN <<Badge("command-master", now)>> ELSE <<>>)]

awardBadges(profile, now) ==
  LET badges ==
        (IF profile.stats.totalCollections >= 1 /\ ~HasBadge(profile, "first-collection")
           THEN <<Badge("first-collection", now)>> ELSE <<>>)
        \o (IF profile.stats.totalCollections >= 5 /\ ~HasBadge(profile, "prolific-contributor")
           THEN <<Badge("prolific-contributor", now)>> ELSE <<>>)
        \o (IF profile.stats.totalCommands >= 20 /\ ~HasBadge(profile, "command-master")
           THEN <<Badge("command-master", now)>> ELSE <<>>)
  IN  [profile EXCEPT !.badges = @ \o badges]

\* variant: every user directory shares one profile file
ProfilePath_shared(userDir) == "profile.json"

ProfilePath(userDir) == userDir \o "/profile.json"

NewProfile(issue, now) ==
  [kind        |-> "profile",
   username    |-> issue.contactInfo,
   displayName |-> IF issue.metadata.author # "" THEN issue.metadata.author
                   ELSE issue.contactInfo,
   joinedAt    |-> now,
   collections |-> <<>>,
   stats       |-> [totalCollections |-> 0, totalCommands |-> 0,
                    totalDownloads |-> 0, avgRating |-> 0],
   badges      |-> <<>>,
   bio         |-> "",
   website     |-> "",
   social      |-> <<>>]

\* variant: the stored profile is never loaded
LoadProfile_fresh(fs, userDir, issue, now) == NewProfile(issue, now)

\* the profile updateUserProfile works on: the stored one when it exists and
\* parses, a new one otherwise
LoadProfile(fs, userDir, issue, now) ==
  IF Exists(fs, ProfilePath(userDir)) /\ fs[ProfilePath(userDir)].kind = "profile"
  THEN fs[ProfilePath(userDir)]
  ELSE NewProfile(issue, now)

CollectionRef(issue, collectionInfo, now) ==
  [id           |-> collectionInfo.collectionId,
   name         |-> issue.metadata.name,
   description  |-> issue.metadata.description,
   category     |-> issue.metadata.category,
   commandCount |-> collectionInfo.totalCommands,
   submittedAt  |-> issue.metadata.submittedAt,
   processedAt  |-> now,
   fileName     |-> collectionInfo.collectionFileName,
   tags         |-> issue.metadata.tags]

\* variant: no collection is ever found, the reference is always appended
FindCollection_never(collections, id) == 0

\* findIndex: the first position whose id matches, 0 if none
FindCollection(collections, id) ==
  IF \E k \in 1..Len(collections) : collections[k].id = id
  THEN CHOOSE k \in 1..Len(collections) :
         collections[k].id = id /\ \A j \in 1..(k - 1) : collections[j].id # id
  ELSE 0

\* variant: the stats are incremented instead of recomputed
UpdatedProfile_incremented(profile, collectionRef, now) ==
  LET existingIndex == FindCollection(profile.collections, collectionRef.id)
      collections   == IF existingIndex > 0
                       THEN [profile.collections EXCEPT ![existingIndex] = collectionRef]
                       ELSE Append(profile.collections, collectionRef)
      withStats     == [profile EXCEPT
                          !.collections = collections,
                          !.stats.totalCollections = @ + 1,
                          !.stats.totalCommands = @ + collectionRef.commandCount]
  IN  awardBadges(withStats, now)

\* the profile updateUserProfile saves
UpdatedProfile(profile, collectionRef, now) ==
  LET existingIndex == FindCollection(profile.collections, collectionRef.id)
      collections   == IF existingIndex > 0
                       THEN [profile.collections EXCEPT ![existingIndex] = collectionRef]
                       ELSE Append(profile.collections, collectionRef)
      withStats     == [profile EXCEPT
                          !.collections = collections,
                          !.stats.totalCollections = Len(collections),
                          !.stats.totalCommands =
                             SumSeq([k \in 1..Len(collections) |-> collections[k].commandCount])]
  IN  awardBadges(withStats, now)

updateUserProfile(fs, userDir, issue, collectionInfo, now) ==
  WriteFile(fs, ProfilePath(userDir),
            UpdatedProfile(LoadProfile(fs, userDir, issue, now),
                           CollectionRef(issue, collectionInfo, now), now))

IndexPath == "index.json"

\* the directory entries of the collections directory in readdirSync order
Dirents == <<".git", "alice", "bob">>

\* variant: the new index starts from the totals of the stored one
InitialIndex_previous(fs, now) ==
  [kind |-> "index", generatedAt |-> now, totalUsers |-> 0,
   totalCollections |-> IF Exists(fs, IndexPath) THEN fs[IndexPath].totalCollections ELSE 0,
   totalCommands    |-> IF Exists(fs, IndexPath) THEN fs[IndexPath].totalCommands ELSE 0]

\* the literal updateCollectionsIndex starts from
InitialIndex(fs, now) ==
  [kind |-> "index", generatedAt |-> now, totalUsers |-> 0,
   totalCollections |-> 0, totalCommands |-> 0]

\* userDirs after .filter(...).map(...): directories other than .git, in order
ScannedDirs(dirs) ==
  LET IsUserDir(name) == name \in dirs /\ name # ".git"
  IN  SelectIdx(Dirents, IsUserDir, 1)

\* the profiles the scan processes: profile.json exists and parses
ScannedProfiles(fs, dirs) ==
  LET Readable(name) == /\ Exists(fs, ProfilePath(name))
                        /\ fs[ProfilePath(name)].kind = "profile"
      names == SelectIdx(ScannedDirs(dirs), Readable, 1)
  IN  [k \in 1..Len(names) |-> fs[ProfilePath(names[k])]]

IndexUser(profile) ==
  [username         |-> profile.username,
   displayName      |-> profile.displayName,
   totalCollections |-> profile.stats.totalCollections,
   totalCommands    |-> profile.stats.totalCommands,
   badges           |-> Len(profile.badges),
   joinedAt         |-> profile.joinedAt]

\* { ...collection, username, displayName }
RecentEntry(collection, profile) ==
  [c \in DOMAIN collection \cup {"username", "displayName"} |->
     IF c = "username" THEN profile.username
     ELSE IF c = "displayName" THEN profile.displayName
     ELSE collection[c]]

ProfileEntries(profile) ==
  [k \in 1..Len(profile.collections) |-> RecentEntry(profile.collections[k], profile)]

\* Array.prototype.sort with (a, b) => new Date(b.submittedAt) - new Date(a.submittedAt):
\* stable, most recent first
RECURSIVE InsertByDate(_, _)
InsertByDate(sorted, entry) ==
  IF sorted = <<>> THEN <<entry>>
  ELSE IF Head(sorted).submittedAt >= entry.submittedAt
  THEN <<Head(sorted)>> \o InsertByDate(Tail(sorted), entry)
  ELSE <<entry>> \o sorted

\* variant: the entries stay in the order of the scan
SortByDate_unsorted(entries, k) == SubSeq(entries, 1, k)

RECURSIVE SortByDate(_, _)
SortByDate(entries, k) ==
  IF k = 0 THEN <<>> ELSE InsertByDate(SortByDate(entries, k - 1), entries[k])

RecentLimit == 20

\* index.categories / index.tags: a count per key that occurs
CountBy(keys) ==
  [key \in {keys[k] : k \in 1..Len(keys)} |->
     Cardinality({k \in 1..Len(keys) : keys[k] = key})]

\* the index object after the scan has processed the given profiles, sorted
\* and cut
BuildIndex(profiles, start) ==
  LET entries == Flatten([k \in 1..Len(profiles) |-> ProfileEntries(profiles[k])])
      sorted  == SortByDate(entries, Len(entries))
  IN  [kind             |-> "index",
       generatedAt      |-> start.generatedAt,
       totalUsers       |-> Len(profiles),
       totalCollections |-> start.totalCollections
           + SumSeq([k \in 1..Len(profiles) |-> profiles[k].stats.totalCollections]),
       totalCommands    |-> start.totalCommands
           + SumSeq([k \in 1..Len(profiles) |-> profiles[k].stats.totalCommands]),
       users            |-> [k \in 1..Len(profiles) |-> IndexUser(profiles[k])],
       recentCollections |-> SubSeq(sorted, 1, Min(RecentLimit, Len(sorted))),
       categories       |-> CountBy([k \in 1..Len(entries) |-> entries[k].category]),
       tags             |-> CountBy(Flatten([k \in 1..Len(entries) |-> entries[k].tags]))]

updateCollectionsIndex(fs, dirs, now) ==
  WriteFile(fs, IndexPath, BuildIndex(ScannedProfiles(fs, dirs), InitialIndex(fs, now)))

\* mkdirSync(userDir), mkdirSync(userDir/collections), mkdirSync(userDir/commands)
ensureDirectoryExists(dirs, userDir) == dirs \cup {userDir}

\* the store after organizeCollection has run to completion for one issue
organizeCollection(store, issue, now) ==
  LET userDir   == issue.contactInfo
      dirs      == ensureDirectoryExists(store.dirs, userDir)
      generated == generateCollectionFiles(store.fs, issue, userDir \o "/collections",
                                           userDir \o "/commands", now)
      fs2       == updateUserProfile(generated.fs, userDir, issue, generated.info, now)
  IN  [fs |-> updateCollectionsIndex(fs2, dirs, now), dirs |-> dirs]

(***************************************************************************)
(* Submissions handed to the organizer and the stores it starts from.      *)
(***************************************************************************)
MaxRuns  == 2     \* runs of organize-collection.js
MaxEdits == 1     \* changes to profile.json files made outside the script

UserNames == {"alice", "bob"}

FormTools     == <<"F", "o", "r", "m", " ", "T", "o", "o", "l", "s">>
FormToolsBang == <<"f", "o", "r", "m", " ", "t", "o", "o", "l", "s", "!">>
GridKit       == <<"G", "r", "i", "d", " ", "K", "i", "t">>
CollectionNames == {FormTools, FormToolsBang, GridKit}

SeedName(k) == <<"S", "e", "e", "d", " ", ToString(k)>>

OpenForm     == [name |-> <<"O", "p", "e", "n", " ", "F", "o", "r", "m">>,
                 code |-> <<"Xrm.Page">>]
OpenFormBang == [name |-> <<"o", "p", "e", "n", " ", "f", "o", "r", "m", "!">>,
                 code |-> <<"fetch(">>]
CloseCommand == [name |-> <<"C", "l", "o", "s", "e">>, code |-> <<"Xrm.Page">>]
Unnamed      == [name |-> <<>>, code |-> <<"localStorage">>]

CommandLists == { <<OpenForm, CloseCommand>>,
                  <<OpenForm, OpenFormBang, CloseCommand, Unnamed>> }

\* who filed the issue (user.login), the user name typed into the form
\* (contactInfo, "" when the field is empty) and the issue number
Origins ==
  { [submittedBy |-> "alice", contactInfo |-> "alice", number |-> 1],
    [submittedBy |-> "alice", contactInfo |-> "alice", number |-> 2],
    [submittedBy |-> "bob",   contactInfo |-> "bob",   number |-> 3],
    [submittedBy |-> "bob",   contactInfo |-> "",      number |-> 3] }

\* the parsed issue data parse-collection-issue.js writes for an issue
ParsedIssue(origin, name, category, tags, commands) ==
  [contactInfo |-> origin.contactInfo,
   metadata    |-> [name        |-> name,
                    description |-> "",
                    category    |-> category,
                    tags        |-> tags,
                    author      |-> IF origin.submittedBy = "alice" THEN "Alice A" ELSE "",
                    submittedBy |-> origin.submittedBy,
                    submittedAt |-> origin.number],
   commands    |-> commands,
   issueInfo   |-> [number |-> origin.number]]

Submissions ==
  { ParsedIssue(origin, name,
                IF name = GridKit THEN "grids" ELSE "forms",
                IF name = GridKit THEN <<"grids">> ELSE <<"forms", "crm">>,
                commands)
      : origin \in Origins, name \in CollectionNames, commands \in CommandLists }

\* earlier submissions of alice: four collections of four commands each
SeedIssue(k) ==
  ParsedIssue([submittedBy |-> "alice", contactInfo |-> "alice", number |-> 100 + k],
              SeedName(k), "utility", <<>>,
              <<OpenForm, OpenFormBang, CloseCommand, Unnamed>>)

SeedIssues == <<SeedIssue(1), SeedIssue(2), SeedIssue(3), SeedIssue(4)>>

\* the store after the first k seed issues were organized, one per clock tick
RECURSIVE SeededStore(_)
SeededStore(k) ==
  IF k = 0 THEN [fs |-> <<>>, dirs |-> {".git"}]
  ELSE organizeCollection(SeededStore(k - 1), SeedIssues[k], k)

Readable(fs, user) ==
  Exists(fs, ProfilePath(user)) /\ fs[ProfilePath(user)].kind = "profile"

BadgeIds(fs, user) ==
  IF Readable(fs, user)
  THEN {fs[ProfilePath(user)].badges[k].id : k \in 1..Len(fs[ProfilePath(user)].badges)}
  ELSE {}

NoRun == [kind |-> "none"]

OrganizerIdle ==
  /\ disk = <<>>
  /\ directories = {}
  /\ clock = 0
  /\ runs = 0
  /\ edits = 0
  /\ lastRun = NoRun
  /\ prevBadges = [u \in UserNames |-> {}]

(***************************************************************************)
(* PackageManager (package-manager.js).                                    *)
(***************************************************************************)
Undefined == "<undefined>"      \* the value of a property that is not set

\* command[key], undefined when the key is absent
Get(object, key) == IF key \in DOMAIN object THEN object[key] ELSE Undefined

\* value || fallback for a string property
OrElse(value, fallback) == IF value = Undefined \/ value = "" THEN fallback ELSE value

\* a value inside a string concatenation
StringOf(value) == IF value = Undefined THEN "undefined" ELSE value

\* the properties of a command that hold a string or nothing
StringKeys == {"id", "name", "description", "category", "code", "icon", "author",
               "dynamicsVersion"}

\* JSON.stringify of an object: properties whose value is undefined are left out
DropUndefined(object) ==
  [key \in {k \in DOMAIN object : ~(k \in StringKeys /\ object[k] = Undefined)}
     |-> object[key]]

\* JSON.stringify of an array of commands (key order is not modelled)
StringifyCommands(commands) ==
  [json |-> [k \in 1..Len(commands) |-> DropUndefined(commands[k])]]

\* JSON.parse of such a text
ParseCommands(text) == text.json

\* crypto.createHash('sha256').update(content).digest('hex'): equal digests
\* for equal contents only
Sha256(content) == [sha256 |-> content]

generateChecksum(commands) == Sha256(StringifyCommands(commands))

\* PackageManager.generateCommandId
packageCommandId(command) ==
  Md5Hex8(StringOf(Get(command, "name")) \o StringOf(Get(command, "code"))
            \o StringOf(Get(command, "author")))

sanitizeCommand(command, now) ==
  [id              |-> packageCommandId(command),
   name            |-> OrElse(Get(command, "name"), "Unnamed Command"),
   description     |-> OrElse(Get(command, "description"), ""),
   category        |-> OrElse(Get(command, "category"), "other"),
   code            |-> OrElse(Get(command, "code"), ""),
   icon            |-> OrElse(Get(command, "icon"), "code"),
   tags            |-> IF "tags" \in DOMAIN command THEN command.tags ELSE <<>>,
   author          |-> OrElse(Get(command, "author"), "Unknown"),
   dynamicsVersion |-> OrElse(Get(command, "dynamicsVersion"), "All versions"),
   documentation   |-> [usageInstructions |-> "", prerequisites |-> "", limitations |-> ""],
   metadata        |-> [submittedAt |-> now, validated |-> FALSE, validationScore |-> 0]]

createPackage(commands, packageInfo, now) ==
  [version     |-> "1.0.0",
   packageInfo |-> [name         |-> OrElse(Get(packageInfo, "name"), "Community Command Package"),
                    description  |-> OrElse(Get(packageInfo, "description"), ""),
                    author       |-> OrElse(Get(packageInfo, "author"), "Community"),
                    category     |-> OrElse(Get(packageInfo, "category"), "mixed"),
                    tags         |-> IF "tags" \in DOMAIN packageInfo
                                     THEN packageInfo.tags ELSE <<>>,
                    createdAt    |-> now,
                    commandCount |-> Len(commands)],
   commands    |-> [k \in 1..Len(commands) |-> sanitizeCommand(commands[k], now)],
   checksum    |-> generateChecksum(commands)]

formatForLevelUp(package, now) ==
  [version     |-> package.version,
   exportedAt  |-> now,
   packageInfo |-> package.packageInfo,
   commands    |-> [k \in 1..Len(package.commands) |->
                      [name            |-> package.commands[k].name,
                       description     |-> package.commands[k].description,
                       code            |-> package.commands[k].code,
                       icon            |-> package.commands[k].icon,
                       category        |-> package.commands[k].category,
                       tags            |-> package.commands[k].tags,
                       author          |-> package.commands[k].author,
                       dynamicsVersion |-> package.commands[k].dynamicsVersion]],
   checksum    |-> package.checksum]

ExportFormats == {"levelup", "json", "zip"}

\* the content exportPackage writes, Null when the format is not supported
exportPackage(package, format, now) ==
  CASE format = "levelup" -> formatForLevelUp(package, now)
    [] format = "json"    -> package
    [] OTHER              -> Null

\* the message of the error validatePackage throws, "" when it returns
validatePackage(package) ==
  LET MissingName(k) == OrElse(Get(package.commands[k], "name"), "") = ""
      MissingCode(k) == OrElse(Get(package.commands[k], "code"), "") = ""
      Bad(k) == MissingName(k) \/ MissingCode(k)
      first  == CHOOSE k \in 1..Len(package.commands) :
                  Bad(k) /\ \A j \in 1..(k - 1) : ~Bad(j)
  IN  IF OrElse(Get(package, "version"), "") = "" THEN "Package missing version"
      ELSE IF "commands" \notin DOMAIN package THEN "Package missing commands array"
      ELSE IF Len(package.commands) = 0 THEN "Package contains no commands"
      ELSE IF \E k \in 1..Len(package.commands) : Bad(k)
      THEN "Command " \o ToString(first) \o
             (IF MissingName(first) THEN " missing name" ELSE " missing code")
      ELSE IF generateChecksum(package.commands) # package.checksum
      THEN "Package checksum mismatch - data may be corrupted"
      ELSE ""

\* what importPackage returns or throws for a file with the given content
importPackage(content) ==
  IF validatePackage(content) = ""
  THEN [kind |-> "package", package |-> content]
  ELSE [kind |-> "error", message |-> "Invalid package file: " \o validatePackage(content)]

PackageIdle ==
  /\ rawCommands = <<>>
  /\ pkg = Null
  /\ packageFile = Null
  /\ packageAltered = "no"
  /\ importResult = Null

Procs == {1, 2}

\* a run that has not started: no issue data, nothing read yet
IdleProc ==
  [pc |-> "idle", issue |-> Null, now |-> 0, k |-> 0, profile |-> Null,
   userDirs |-> <<>>, profiles |-> <<>>]

ConcurrentIdle ==
  /\ procs = [p \in Procs |-> IdleProc]
  /\ serialized = FALSE
  /\ startStore = [fs |-> <<>>, dirs |-> {}]

(***************************************************************************)
(* CollectionIssueParser (scripts/organize-collection.js): the issue body  *)
(* is kept as what extractField returns for each field of the form; a      *)
(* field's text is a sequence of characters, "" a field that is absent.    *)
(* scripts/parse-collection-issue.js holds the same class under other      *)
(* field names.                                                            *)
(***************************************************************************)
NoBody == [kind |-> "none"]
NoCli  == [kind |-> "none"]

\* extractTitleCollection: the text after "[COLLECTION]", or the whole title
extractTitleCollection(title) ==
  IF Join(SeqMap(toLowerCase, title.prefix)) = "[collection]"
  THEN Join(title.text)
  ELSE Join(title.prefix \o title.text)

\* extractMetadata, the two fields validateCollection reads
extractMetadata(b) ==
  [name         |-> IF b.collectionName # <<>> THEN Join(b.collectionName)
                    ELSE extractTitleCollection(b.title),
   description  |-> Join(b.description),
   commandCount |-> b.commandCount]

\* variant: whatever list the parsed payload carries is returned
extractCommands_anyShape(b) ==
  IF b.commandsJson.kind \in {"missing", "malformed", "null"} THEN <<>>
  ELSE b.commandsJson.commands

\* extractCommands.  The payload of a body is the value its commands field
\* parses to: absent field ("missing"), text JSON.parse rejects
\* ("malformed"), JSON null, an object with a commands array ("commands"),
\* a bare array ("array"), or another object ("object", whose list, if any,
\* is under another key).  Everything after the field lookup is inside one
\* try block whose catch returns [].
extractCommands(b) ==
  LET commandsData == b.commandsJson
  IN  IF commandsData.kind = "missing" THEN <<>>            \* !commandsJsonField
      ELSE IF commandsData.kind = "malformed" THEN <<>>     \* JSON.parse throws
      ELSE IF commandsData.kind = "null" THEN <<>>          \* null.commands throws
      ELSE IF commandsData.kind = "commands" THEN commandsData.commands
      ELSE IF commandsData.kind = "array" THEN commandsData.commands
      ELSE <<>>                                             \* throw new Error(...)

\* extractContactInfo: .replace(/[@\s]/g, '').toLowerCase()
extractContactInfo(b) ==
  LET Kept(c) == c # "@" /\ c \notin WhiteSpace
  IN  IF b.contactInfo # <<>> /\ Join(b.contactInfo) # "_No response_"
      THEN Join(SeqMap(toLowerCase, Filter(b.contactInfo, Kept)))
      ELSE ""

\* code.toLowerCase().includes('eval(') on the fragments of the model
IncludesEval(code) == \E i \in 1..Len(code) : code[i] \in {"eval(", "EVAL("}

\* some line of the code includes 'http://' or 'https://'
IncludesUrl(code) ==
  \E i \in 1..Len(code) : code[i] \in {"https://example.org", "http://example.org"}

\* the messages one command adds to errors and to warnings
CommandErrors(command, index) ==
  (IF command.name = <<>>
   THEN <<"Command " \o ToString(index) \o " is missing a name">> ELSE <<>>) \o
  (IF command.code = <<>>
   THEN <<"Command " \o ToString(index) \o " is missing JavaScript code">> ELSE <<>>) \o
  (IF command.code # <<>> /\ IncludesEval(command.code)
   THEN <<"Command " \o ToString(index) \o " contains dangerous eval() function">>
   ELSE <<>>)

CommandWarnings(command, index) ==
  IF command.code # <<>> /\ IncludesUrl(command.code)
  THEN <<"Command " \o ToString(index) \o " contains hardcoded URLs">> ELSE <<>>

\* variant: a submission without commands is not an error
ValidationErrors_optionalCommands(b) ==
  LET metadata == extractMetadata(b)
      commands == extractCommands(b)
  IN  (IF metadata.name = "" THEN <<"Collection name is required">> ELSE <<>>) \o
      (IF metadata.description = ""
       THEN <<"Collection description is required">> ELSE <<>>) \o
      (IF extractContactInfo(b) = ""
       THEN <<"Contact information (GitHub username) is required">> ELSE <<>>) \o
      Flatten([i \in 1..Len(commands) |-> CommandErrors(commands[i], i)])

\* validateCollection: the errors array
ValidationErrors(b) ==
  LET metadata == extractMetadata(b)
      commands == extractCommands(b)
  IN  (IF metadata.name = "" THEN <<"Collection name is required">> ELSE <<>>) \o
      (IF metadata.description = ""
       THEN <<"Collection description is required">> ELSE <<>>) \o
      (IF extractContactInfo(b) = ""
       THEN <<"Contact information (GitHub username) is required">> ELSE <<>>) \o
      (IF Len(commands) = 0
       THEN <<"Commands JSON is required and must contain at least one command">>
       ELSE <<>>) \o
      Flatten([i \in 1..Len(commands) |-> CommandErrors(commands[i], i)])

\* validateCollection: the warnings array
ValidationWarnings(b) ==
  LET metadata == extractMetadata(b)
      commands == extractCommands(b)
  IN  Flatten([i \in 1..Len(commands) |-> CommandWarnings(commands[i], i)]) \o
      (IF Len(commands) > 0 /\ metadata.commandCount # 0
            /\ metadata.commandCount # Len(commands)
       THEN <<"Declared command count (" \o ToString(metadata.commandCount)
                \o ") doesn't match actual count (" \o ToString(Len(commands)) \o ")">>
       ELSE <<>>) \o
      (IF ~b.checklist THEN <<"Safety checklist not completed">> ELSE <<>>)

validateCollection(b) ==
  ValidationResult(Len(ValidationErrors(b)), Len(ValidationWarnings(b)),
                   Len(extractCommands(b)))

\* parseIssue: the part of the collection the checker and the engine read
parseIssue(b) ==
  [kind |-> "issue", commands |-> extractCommands(b), validation |-> validateCollection(b)]

(***************************************************************************)
(* Inputs of the decision engine.                                          *)
(***************************************************************************)
PlainCommand == [name |-> <<"O", "p", "e", "n">>, code |-> <<"Xrm.Page">>]

CommandCounts == {0, 1, 3}

\* validateCollection records an error whenever there is no command
ValidationInputs ==
  {v \in (0..MaxErrors) \X (0..MaxWarnings) \X CommandCounts : v[3] = 0 => v[1] >= 1}

IssueDataOf(v, commands) ==
  [kind |-> "issue", commands |-> commands,
   validation |-> ValidationResult(v[1], v[2], v[3])]

FindingKinds ==
  { [severity |-> "error",   category |-> "security"],
    [severity |-> "error",   category |-> "correctness"],
    [severity |-> "warning", category |-> "correctness"],
    [severity |-> "warning", category |-> "performance"],
    [severity |-> "note",    category |-> "other"] }

SeqsUpTo(S, n) == UNION {[1..k -> S] : k \in 0..n}

SecurityReportInputs ==
  {Null} \cup {processResults(f) : f \in SeqsUpTo(FindingKinds, MaxFindings)}

AiScoreInputs == {0, 45, 74, 75, 90, 100}
RiskLevels    == {"LOW", "MEDIUM", "HIGH", "CRITICAL"}
Sev(s)        == [severity |-> s, category |-> "Code Injection"]
AiIssueInputs == {<<>>, <<Sev("LOW")>>, <<Sev("MEDIUM")>>, <<Sev("HIGH")>>,
                  <<Sev("CRITICAL")>>, <<Sev("MEDIUM"), Sev("CRITICAL")>>}

\* an AI safety report file: with a top-level issues list (the shape the
\* engine reads) or without one (the shape performSafetyCheck writes)
AiReportInputs ==
  {Null} \cup
  { [InitialSafetyReport EXCEPT !.safetyScore = sc, !.riskLevel = rl,
                                !.autoApprove = aa, !.hasIssues = TRUE, !.issues = is]
      : sc \in AiScoreInputs, rl \in RiskLevels, aa \in BOOLEAN, is \in AiIssueInputs } \cup
  { [InitialSafetyReport EXCEPT !.safetyScore = sc, !.riskLevel = rl, !.autoApprove = aa]
      : sc \in AiScoreInputs, rl \in RiskLevels, aa \in BOOLEAN }

CheckerIdle ==
  /\ githubToken = FALSE
  /\ checkStatus = "idle"
  /\ checkIndex = 0
  /\ safetyReport = InitialSafetyReport
  /\ promises = <<>>

\* node calculate-approval-score.js <issue-data> <security-report> <ai-safety-report>
Init ==
  /\ issueData \in {IssueDataOf(v, [i \in 1..v[3] |-> PlainCommand]) : v \in ValidationInputs}
  /\ securityReport \in SecurityReportInputs
  /\ aiSafetyReport \in AiReportInputs
  /\ report = NoReport
  /\ CheckerIdle
  /\ OrganizerIdle
  /\ PackageIdle
  /\ override = "none"
  /\ body = NoBody
  /\ cli = NoCli
  /\ ConcurrentIdle

CalculateApprovalScore ==
  /\ report = NoReport
  /\ issueData # Unset
  /\ aiSafetyReport # Unset
  /\ securityReport # Unset
  /\ report' = calculateApprovalScore(issueData, securityReport, aiSafetyReport)
  /\ UNCHANGED <<issueData, securityReport, aiSafetyReport>>
  /\ UNCHANGED checkerVars
  /\ UNCHANGED organizerVars
  /\ UNCHANGED packageVars
  /\ UNCHANGED concurrentVars
  /\ UNCHANGED pipelineVars
  /\ UNCHANGED cliVars

(***************************************************************************)
(* The AI safety check of one submission, followed by the decision.        *)
(***************************************************************************)
MaxCommands == 2     \* commands of a submission handed to the checker

CommandPool ==
  { PlainCommand,
    [name |-> <<"R", "u", "n">>, code |-> <<"eval(">>],
    [name |-> <<"M", "a", "k", "e">>, code |-> <<"new Function(">>],
    [name |-> <<"D", "r", "a", "w">>, code |-> <<"document.write", "innerHTML =">>],
    [name |-> <<"W", "r", "i", "t", "e">>, code |-> <<"document.write", "try { } catch (">>],
    [name |-> <<>>, code |-> <<>>] }

Analysis(score, risk, issues, auto) ==
  [scoreIsNumber |-> TRUE, safetyScore |-> score, riskLevel |-> risk,
   issuesIsArray |-> TRUE, issues |-> issues, autoApprove |-> auto]

NoAnalysis == Analysis(0, "", <<>>, FALSE)

ApiResponses ==
  { [status |-> 200, body |-> "analysis", analysis |-> Analysis(95, "LOW", <<>>, TRUE)],
    [status |-> 200, body |-> "analysis",
     analysis |-> Analysis(95, "LOW", <<Sev("CRITICAL")>>, TRUE)],
    [status |-> 200, body |-> "analysis",
     analysis |-> Analysis(150, "MEDIUM", <<Sev("HIGH")>>, FALSE)],
    [status |-> 200, body |-> "analysis", analysis |-> Analysis(90, "LOW", <<Null>>, TRUE)],
    [status |-> 200, body |-> "analysis",
     analysis |-> [Analysis(80, "LOW", <<>>, TRUE) EXCEPT !.issuesIsArray = FALSE]],
    [status |-> 200, body |-> "not-json", analysis |-> NoAnalysis],
    [status |-> 500, body |-> "error", analysis |-> NoAnalysis] }

PipelineValidations     == {<<0, 0>>, <<0, 1>>, <<1, 0>>}

\* issue bodies: the form filled in, with the fields the claims vary
Title    == [prefix |-> <<"[", "C", "O", "L", "L", "E", "C", "T", "I", "O", "N", "]">>,
             text   |-> <<"F", "o", "r", "m">>]
NoTitle  == [prefix |-> <<>>, text |-> <<>>]
Alice    == <<"@", "A", "l", "i", "c", "e">>
NoResponse == <<"_", "N", "o", " ", "r", "e", "s", "p", "o", "n", "s", "e", "_">>

CommandsJson(commands) == [kind |-> "commands", commands |-> commands]
NoCommandsJson == {[kind |-> k, commands |-> <<>>] : k \in {"missing", "malformed", "object"}}

FilledBody(contactInfo, commandsJson, commandCount, checklist) ==
  [kind |-> "body", title |-> Title, collectionName |-> <<"F", "o", "r", "m">>,
   description |-> <<"T", "o", "o", "l", "s">>, contactInfo |-> contactInfo,
   commandsJson |-> commandsJson, commandCount |-> commandCount, checklist |-> checklist]

\* the submissions handed to the AI safety check
SafetyBodies ==
  { FilledBody(contact, json, 0, checklist)
      : contact \in {Alice, NoResponse}, checklist \in BOOLEAN,
        json \in {[kind |-> "missing", commands |-> <<>>]} \cup
                 {CommandsJson(cmds) : cmds \in SeqsUpTo(CommandPool, MaxCommands) \ {<<>>}} }
PipelineSecurityReports ==
  {Null, processResults(<<>>), processResults(<<[severity |-> "warning", category |-> "correctness"]>>)}

FreshPromise ==
  [state |-> "none", value |-> NoAnalysis, calls |-> 0, settles |-> 0,
   destroyed |-> FALSE, errored |-> FALSE]

\* resolve / reject of a promise: only the first call settles it
Resolve(p, value) ==
  IF p.state = "pending"
  THEN [p EXCEPT !.state = "resolved", !.value = value, !.settles = @ + 1] ELSE p

Reject(p) ==
  IF p.state = "pending" THEN [p EXCEPT !.state = "rejected", !.settles = @ + 1] ELSE p

\* node ai-safety-check.js <issue-data.json>
SafetyInit ==
  /\ body \in SafetyBodies
  /\ cli = NoCli
  /\ issueData = parseIssue(body)
  /\ securityReport = Unset
  /\ aiSafetyReport = Unset
  /\ report = NoReport
  /\ githubToken \in BOOLEAN
  /\ checkStatus = "idle"
  /\ checkIndex = 0
  /\ safetyReport = InitialSafetyReport
  /\ promises = <<>>
  /\ OrganizerIdle
  /\ PackageIdle
  /\ override = "none"
  /\ ConcurrentIdle

\* performSafetyCheck up to its loop
StartSafetyCheck ==
  /\ checkStatus = "idle"
  /\ checkStatus' = IF issueData.commands = <<>> THEN "failed" ELSE "running"
  /\ promises' = [k \in 1..Len(issueData.commands) |-> FreshPromise]
  /\ UNCHANGED <<githubToken, checkIndex, safetyReport>>
  /\ UNCHANGED engineVars
  /\ UNCHANGED organizerVars
  /\ UNCHANGED packageVars
  /\ UNCHANGED concurrentVars
  /\ UNCHANGED pipelineVars
  /\ UNCHANGED cliVars

\* one iteration of the loop up to the await in analyzeCommand
AnalyzeCommand ==
  /\ checkStatus = "running"
  /\ checkIndex < Len(issueData.commands)
  /\ LET k       == checkIndex + 1
         command == issueData.commands[k]
     IN  IF command.code = <<>>
         THEN /\ safetyReport' = PushCommandReport(safetyReport, command, checkIndex,
                                                   NoCodeReport(command, checkIndex))
              /\ checkIndex' = checkIndex + 1
              /\ UNCHANGED <<checkStatus, promises>>
         ELSE /\ promises' =
                   [promises EXCEPT ![k] =
                      IF githubToken
                      THEN [@ EXCEPT !.state = "pending", !.calls = @ + 1]
                      ELSE Reject([@ EXCEPT !.state = "pending"])]
              /\ checkStatus' = "awaiting"
              /\ UNCHANGED <<checkIndex, safetyReport>>
  /\ UNCHANGED githubToken
  /\ UNCHANGED engineVars
  /\ UNCHANGED organizerVars
  /\ UNCHANGED packageVars
  /\ UNCHANGED concurrentVars
  /\ UNCHANGED pipelineVars
  /\ UNCHANGED cliVars

\* res.on('end'): the response has arrived
ApiEnd ==
  /\ checkStatus = "awaiting"
  /\ LET k == checkIndex + 1
     IN  /\ promises[k].state = "pending"
         /\ ~promises[k].destroyed
         /\ \E resp \in ApiResponses :
              promises' = [promises EXCEPT ![k] =
                             IF ResponseRejected(resp) THEN Reject(@)
                             ELSE Resolve(@, ResolvedAnalysis(resp))]
  /\ UNCHANGED <<githubToken, checkStatus, checkIndex, safetyReport>>
  /\ UNCHANGED engineVars
  /\ UNCHANGED organizerVars
  /\ UNCHANGED packageVars
  /\ UNCHANGED concurrentVars
  /\ UNCHANGED pipelineVars
  /\ UNCHANGED cliVars

\* req.on('error'): a network error, or the error a destroyed request emits
ApiError ==
  /\ \E k \in 1..Len(promises) :
       /\ promises[k].calls > 0
       /\ ~promises[k].errored
       /\ promises[k].state = "pending" \/ promises[k].destroyed
       /\ promises' = [promises EXCEPT ![k] = [Reject(@) EXCEPT !.errored = TRUE]]
  /\ UNCHANGED <<githubToken, checkStatus, checkIndex, safetyReport>>
  /\ UNCHANGED engineVars
  /\ UNCHANGED organizerVars
  /\ UNCHANGED packageVars
  /\ UNCHANGED concurrentVars
  /\ UNCHANGED pipelineVars
  /\ UNCHANGED cliVars

\* req.on('timeout'): 30 seconds without a response
ApiTimeout ==
  /\ checkStatus = "awaiting"
  /\ LET k == checkIndex + 1
     IN  /\ promises[k].state = "pending"
         /\ promises[k].calls > 0
         /\ ~promises[k].destroyed
         /\ promises' = [promises EXCEPT ![k] = [Reject(@) EXCEPT !.destroyed = TRUE]]
  /\ UNCHANGED <<githubToken, checkStatus, checkIndex, safetyReport>>
  /\ UNCHANGED engineVars
  /\ UNCHANGED organizerVars
  /\ UNCHANGED packageVars
  /\ UNCHANGED concurrentVars
  /\ UNCHANGED pipelineVars
  /\ UNCHANGED cliVars

\* analyzeCommand after its await, and the rest of the loop iteration
ResumeAnalyze ==
  /\ checkStatus = "awaiting"
  /\ LET k       == checkIndex + 1
         command == issueData.commands[k]
     IN  /\ promises[k].state \in {"resolved", "rejected"}
         /\ safetyReport' = PushCommandReport(safetyReport, command, checkIndex,
                              AnalyzeCommandResult(command, checkIndex, promises[k]))
  /\ checkIndex' = checkIndex + 1
  /\ checkStatus' = "running"
  /\ UNCHANGED <<githubToken, promises>>
  /\ UNCHANGED engineVars
  /\ UNCHANGED organizerVars
  /\ UNCHANGED packageVars
  /\ UNCHANGED concurrentVars
  /\ UNCHANGED pipelineVars
  /\ UNCHANGED cliVars

\* performSafetyCheck after its loop; the CLI writes the report
FinishSafetyCheck ==
  /\ checkStatus = "running"
  /\ checkIndex = Len(issueData.commands)
  /\ safetyReport' = calculateOverallScores(safetyReport)
  /\ aiSafetyReport' = safetyReport'
  /\ checkStatus' = "done"
  /\ UNCHANGED <<githubToken, checkIndex, promises>>
  /\ UNCHANGED <<issueData, securityReport, report>>
  /\ UNCHANGED organizerVars
  /\ UNCHANGED packageVars
  /\ UNCHANGED concurrentVars
  /\ UNCHANGED pipelineVars
  /\ UNCHANGED cliVars

\* the rule-based ai-safety-check.js run on the issue data instead
AnalyzeSafety ==
  /\ checkStatus = "idle"
  /\ aiSafetyReport = Unset
  /\ aiSafetyReport' = analyzeSafety(issueData)
  /\ checkStatus' = "rules"
  /\ UNCHANGED <<githubToken, checkIndex, safetyReport, promises>>
  /\ UNCHANGED <<issueData, securityReport, report>>
  /\ UNCHANGED organizerVars
  /\ UNCHANGED packageVars
  /\ UNCHANGED concurrentVars
  /\ UNCHANGED pipelineVars
  /\ UNCHANGED cliVars

\* process-codeql-results.js writes the security report (or none is produced)
ProcessCodeQLResults ==
  /\ securityReport = Unset
  /\ securityReport' \in PipelineSecurityReports
  /\ UNCHANGED <<issueData, aiSafetyReport, report>>
  /\ UNCHANGED checkerVars
  /\ UNCHANGED organizerVars
  /\ UNCHANGED packageVars
  /\ UNCHANGED concurrentVars
  /\ UNCHANGED pipelineVars
  /\ UNCHANGED cliVars

(***************************************************************************)
(* node organize-collection.js <issue-data.json> [collections-dir], run    *)
(* one after the other on the same collections directory.                  *)
(***************************************************************************)
OrganizeInit ==
  /\ issueData = Unset
  /\ securityReport = Unset
  /\ aiSafetyReport = Unset
  /\ report = NoReport
  /\ CheckerIdle
  /\ \E seeds \in {0, Len(SeedIssues)} :
       /\ disk = SeededStore(seeds).fs
       /\ directories = SeededStore(seeds).dirs
       /\ clock = seeds
       /\ prevBadges = [u \in UserNames |-> BadgeIds(SeededStore(seeds).fs, u)]
  /\ runs = 0
  /\ edits = 0
  /\ lastRun = NoRun
  /\ PackageIdle
  /\ override = "none"
  /\ body = NoBody
  /\ cli = NoCli
  /\ ConcurrentIdle

\* one run of the script to completion
OrganizeCollection ==
  /\ runs < MaxRuns
  /\ \E issue \in Submissions :
       /\ issue.contactInfo # ""
       /\ LET after == organizeCollection([fs |-> disk, dirs |-> directories],
                                          issue, clock + 1)
          IN  /\ disk' = after.fs
              /\ directories' = after.dirs
              /\ lastRun' = [kind |-> "run", issue |-> issue, before |-> disk]
              /\ prevBadges' = [prevBadges EXCEPT ![issue.contactInfo] =
                                  BadgeIds(after.fs, issue.contactInfo)]
  /\ clock' = clock + 1
  /\ runs' = runs + 1
  /\ UNCHANGED edits
  /\ UNCHANGED <<engineVars, checkerVars>>
  /\ UNCHANGED packageVars
  /\ UNCHANGED concurrentVars
  /\ UNCHANGED pipelineVars
  /\ UNCHANGED cliVars

\* a profile.json becomes a file JSON.parse rejects
ProfileCorrupted ==
  /\ edits < MaxEdits
  /\ \E user \in UserNames :
       /\ Readable(disk, user)
       /\ disk' = WriteFile(disk, ProfilePath(user), GARBAGE)
  /\ edits' = edits + 1
  /\ lastRun' = NoRun
  /\ UNCHANGED <<directories, clock, runs, prevBadges>>
  /\ UNCHANGED <<engineVars, checkerVars>>
  /\ UNCHANGED packageVars
  /\ UNCHANGED concurrentVars
  /\ UNCHANGED pipelineVars
  /\ UNCHANGED cliVars

\* the stats of a profile.json drift from its collection list
ProfileStatsDrift ==
  /\ edits < MaxEdits
  /\ \E user \in UserNames :
       /\ Readable(disk, user)
       /\ disk[ProfilePath(user)].stats.totalCollections > 0
       /\ disk' = WriteFile(disk, ProfilePath(user),
                    [disk[ProfilePath(user)] EXCEPT !.stats.totalCollections = 0,
                                                    !.stats.totalCommands = 0])
  /\ edits' = edits + 1
  /\ lastRun' = NoRun
  /\ UNCHANGED <<directories, clock, runs, prevBadges>>
  /\ UNCHANGED <<engineVars, checkerVars>>
  /\ UNCHANGED packageVars
  /\ UNCHANGED concurrentVars
  /\ UNCHANGED pipelineVars
  /\ UNCHANGED cliVars

(***************************************************************************)
(* A package is created, exported to a file and imported from it; the      *)
(* file's command list may be altered in between.                          *)
(***************************************************************************)
MaxPackageCommands == 2     \* commands handed to createPackage

\* commands as the create command line and createCollectionFromIssues build them
PackageCommands ==
  { [name |-> "Open Form", description |-> "Opens a form", category |-> "forms",
     author |-> "alice", code |-> "Xrm.Page", tags |-> <<>>, icon |-> "code"],
    [name |-> "Close", code |-> "Xrm.Page", icon |-> Undefined, author |-> Undefined],
    [name |-> Undefined, code |-> "fetch(", author |-> Undefined],
    [name |-> "Empty", code |-> Undefined, author |-> Undefined] }

PackageInfos ==
  { [name |-> "Community Commands Package", author |-> "Level Up Community",
     category |-> "mixed", description |-> "Collection of Level Up community commands"],
    [name |-> "Kit"] }

Alterations == {"drop", "code", "name", "original"}

\* the command list of the file after the alteration
AlteredCommands(commands, how) ==
  CASE how = "drop" -> SubSeq(commands, 1, Len(commands) - 1)
    [] how = "code" -> [commands EXCEPT ![1] = [@ EXCEPT !.code = "eval("]]
    [] how = "name" -> [commands EXCEPT ![1] = [@ EXCEPT !.name = ""]]
    [] how = "original" -> ParseCommands(StringifyCommands(rawCommands))

PackageInit ==
  /\ issueData = Unset
  /\ securityReport = Unset
  /\ aiSafetyReport = Unset
  /\ report = NoReport
  /\ CheckerIdle
  /\ OrganizerIdle
  /\ PackageIdle
  /\ override = "none"
  /\ body = NoBody
  /\ cli = NoCli
  /\ ConcurrentIdle

CreatePackage ==
  /\ pkg = Null
  /\ \E commands \in SeqsUpTo(PackageCommands, MaxPackageCommands), info \in PackageInfos :
       /\ rawCommands' = commands
       /\ pkg' = createPackage(commands, info, clock + 1)
  /\ clock' = clock + 1
  /\ UNCHANGED <<packageFile, packageAltered, importResult>>
  /\ UNCHANGED <<disk, directories, runs, edits, lastRun, prevBadges>>
  /\ UNCHANGED <<engineVars, checkerVars>>
  /\ UNCHANGED concurrentVars
  /\ UNCHANGED pipelineVars
  /\ UNCHANGED cliVars

\* exportPackage writes the file; an unsupported format throws before writing
ExportPackage ==
  /\ pkg # Null
  /\ packageFile = Null
  /\ \E format \in ExportFormats :
       /\ exportPackage(pkg, format, clock + 1) # Null
       /\ packageFile' = exportPackage(pkg, format, clock + 1)
  /\ clock' = clock + 1
  /\ UNCHANGED <<rawCommands, pkg, packageAltered, importResult>>
  /\ UNCHANGED <<disk, directories, runs, edits, lastRun, prevBadges>>
  /\ UNCHANGED <<engineVars, checkerVars>>
  /\ UNCHANGED concurrentVars
  /\ UNCHANGED pipelineVars
  /\ UNCHANGED cliVars

\* the command list of the exported file is changed by someone else
AlterPackageFile ==
  /\ packageFile # Null
  /\ packageAltered = "no"
  /\ importResult = Null
  /\ packageFile.commands # <<>>
  /\ \E how \in Alterations :
       /\ AlteredCommands(packageFile.commands, how) # packageFile.commands
       /\ packageFile' = [packageFile EXCEPT !.commands = AlteredCommands(@, how)]
       /\ packageAltered' = how
  /\ UNCHANGED <<rawCommands, pkg, importResult>>
  /\ UNCHANGED organizerVars
  /\ UNCHANGED <<engineVars, checkerVars>>
  /\ UNCHANGED concurrentVars
  /\ UNCHANGED pipelineVars
  /\ UNCHANGED cliVars

ImportPackage ==
  /\ packageFile # Null
  /\ importResult = Null
  /\ importResult' = importPackage(packageFile)
  /\ UNCHANGED <<rawCommands, pkg, packageFile, packageAltered>>
  /\ UNCHANGED organizerVars
  /\ UNCHANGED <<engineVars, checkerVars>>
  /\ UNCHANGED concurrentVars
  /\ UNCHANGED pipelineVars
  /\ UNCHANGED cliVars

(***************************************************************************)
(* Two runs of organize-collection.js on the same collections directory,   *)
(* interleaved at each file-system call.                                   *)
(***************************************************************************)
\* the two issues organized at the same time: two collections of one user,
\* or collections of two users
ConcurrentIssues ==
  { <<ParsedIssue([submittedBy |-> "alice", contactInfo |-> "alice", number |-> 1],
                  FormTools, "forms", <<"forms", "crm">>, <<OpenForm, CloseCommand>>),
      ParsedIssue(origin, GridKit, "grids", <<"grids">>, <<OpenForm, CloseCommand>>)>>
      : origin \in { [submittedBy |-> "alice", contactInfo |-> "alice", number |-> 2],
                     [submittedBy |-> "bob",   contactInfo |-> "bob",   number |-> 3] } }

ConcurrentInit ==
  /\ issueData = Unset
  /\ securityReport = Unset
  /\ aiSafetyReport = Unset
  /\ report = NoReport
  /\ CheckerIdle
  /\ PackageIdle
  /\ override = "none"
  /\ body = NoBody
  /\ cli = NoCli
  /\ \E seeds \in {0, 1} :
       /\ disk = SeededStore(seeds).fs
       /\ directories = SeededStore(seeds).dirs
       /\ clock = seeds
       /\ startStore = SeededStore(seeds)
  /\ runs = 0
  /\ edits = 0
  /\ lastRun = NoRun
  /\ prevBadges = [u \in UserNames |-> {}]
  /\ \E issues \in ConcurrentIssues :
       procs = [p \in Procs |-> [IdleProc EXCEPT !.issue = issues[p]]]
  /\ serialized \in BOOLEAN

Running(p) == procs[p].pc \notin {"idle", "done"}

UserDirOf(p) == procs[p].issue.contactInfo

Goto(p, pc) == procs' = [procs EXCEPT ![p].pc = pc]

ConcurrentFrame ==
  /\ UNCHANGED <<runs, edits, lastRun, prevBadges, serialized, startStore>>
  /\ UNCHANGED <<engineVars, checkerVars, packageVars>>
  /\ UNCHANGED pipelineVars
  /\ UNCHANGED cliVars

\* the script starts and reads the issue data; with serialization it waits
\* while another run works on the same user directory
Begin(p) ==
  /\ procs[p].pc = "idle"
  /\ serialized => \A q \in Procs \ {p} : ~(Running(q) /\ UserDirOf(q) = UserDirOf(p))
  /\ procs' = [procs EXCEPT ![p].pc = "mkdir", ![p].now = clock + 1]
  /\ clock' = clock + 1
  /\ UNCHANGED <<disk, directories>>
  /\ ConcurrentFrame

MakeDirectories(p) ==
  /\ procs[p].pc = "mkdir"
  /\ directories' = ensureDirectoryExists(directories, UserDirOf(p))
  /\ Goto(p, "collection")
  /\ UNCHANGED <<disk, clock>>
  /\ ConcurrentFrame

WriteCollectionFile(p) ==
  /\ procs[p].pc = "collection"
  /\ disk' = WriteFile(disk, CollectionInfo(procs[p].issue,
                                            UserDirOf(p) \o "/collections").collectionPath,
                       CollectionData(procs[p].issue, procs[p].now))
  /\ procs' = [procs EXCEPT ![p].pc = IF procs[p].issue.commands = <<>>
                                      THEN "levelup" ELSE "command",
                            ![p].k = 1]
  /\ UNCHANGED <<directories, clock>>
  /\ ConcurrentFrame

\* one iteration of the forEach that writes the command files
WriteCommandFile(p) ==
  /\ procs[p].pc = "command"
  /\ LET issue == procs[p].issue
         k     == procs[p].k
     IN  /\ disk' = WriteFile(disk,
                      UserDirOf(p) \o "/commands/" \o CommandFileName(issue.commands[k], k - 1),
                      generateCommandFileContent(issue.commands[k],
                        CollectionMetadata(issue, procs[p].now),
                        generateCommandId(issue.commands[k], k - 1)))
         /\ procs' = [procs EXCEPT ![p].pc = IF k = Len(issue.commands)
                                             THEN "levelup" ELSE "command",
                                   ![p].k = k + 1]
  /\ UNCHANGED <<directories, clock>>
  /\ ConcurrentFrame

WriteLevelUpFile(p) ==
  /\ procs[p].pc = "levelup"
  /\ disk' = WriteFile(disk, LevelUpImportPath(procs[p].issue, UserDirOf(p) \o "/collections"),
                       generateLevelUpImport(CollectionData(procs[p].issue, procs[p].now),
                                             procs[p].now))
  /\ Goto(p, "readProfile")
  /\ UNCHANGED <<directories, clock>>
  /\ ConcurrentFrame

\* updateUserProfile up to its readFileSync
ReadProfile(p) ==
  /\ procs[p].pc = "readProfile"
  /\ procs' = [procs EXCEPT ![p].pc = "writeProfile",
                            ![p].profile = LoadProfile(disk, UserDirOf(p), procs[p].issue,
                                                       procs[p].now)]
  /\ UNCHANGED <<disk, directories, clock>>
  /\ ConcurrentFrame

\* updateUserProfile from the upsert to its writeFileSync
WriteProfile(p) ==
  /\ procs[p].pc = "writeProfile"
  /\ disk' = WriteFile(disk, ProfilePath(UserDirOf(p)),
               UpdatedProfile(procs[p].profile,
                 CollectionRef(procs[p].issue,
                               CollectionInfo(procs[p].issue, UserDirOf(p) \o "/collections"),
                               procs[p].now),
                 procs[p].now))
  /\ Goto(p, "readdir")
  /\ UNCHANGED <<directories, clock>>
  /\ ConcurrentFrame

\* updateCollectionsIndex up to its readdirSync
ReadDirectory(p) ==
  /\ procs[p].pc = "readdir"
  /\ procs' = [procs EXCEPT ![p].pc = IF ScannedDirs(directories) = <<>>
                                      THEN "writeIndex" ELSE "scan",
                            ![p].userDirs = ScannedDirs(directories),
                            ![p].profiles = <<>>,
                            ![p].k = 1]
  /\ UNCHANGED <<disk, directories, clock>>
  /\ ConcurrentFrame

\* one iteration of the scan: the profile of one user directory is read
ScanProfile(p) ==
  /\ procs[p].pc = "scan"
  /\ LET k   == procs[p].k
         dir == procs[p].userDirs[k]
     IN  procs' = [procs EXCEPT ![p].pc = IF k = Len(procs[p].userDirs)
                                          THEN "writeIndex" ELSE "scan",
                                ![p].profiles = IF Readable(disk, dir)
                                                THEN Append(@, disk[ProfilePath(dir)])
                                                ELSE @,
                                ![p].k = k + 1]
  /\ UNCHANGED <<disk, directories, clock>>
  /\ ConcurrentFrame

WriteIndex(p) ==
  /\ procs[p].pc = "writeIndex"
  /\ disk' = WriteFile(disk, IndexPath,
                       BuildIndex(procs[p].profiles, InitialIndex(disk, procs[p].now)))
  /\ Goto(p, "done")
  /\ UNCHANGED <<directories, clock>>
  /\ ConcurrentFrame

(***************************************************************************)
(* The processing of one issue: the decision, then the organizer.  The     *)
(* workflow that chains the scripts is described in                        *)
(* docs/AUTOMATED_PROCESSING.md; the condition under which it runs the     *)
(* organizer is taken from the specification.                              *)
(***************************************************************************)
Overrides == {"none", "authorized", "unauthorized"}

\* the issue data of a submission together with its validation result
PipelineIssue(issue, v) ==
  [c \in DOMAIN issue \cup {"kind", "validation"} |->
     IF c = "kind" THEN "issue"
     ELSE IF c = "validation" THEN ValidationResult(v[1], v[2], Len(issue.commands))
     ELSE issue[c]]

PipelineAiReports ==
  {Null} \cup
  { [InitialSafetyReport EXCEPT !.safetyScore = sc, !.riskLevel = determineRiskLevel(sc),
                                !.autoApprove = sc >= 75]
      : sc \in {45, 90, 100} }

PipelineInit ==
  /\ issueData \in { PipelineIssue(issue, v)
                       : issue \in {i \in Submissions : i.contactInfo # "" /\ i.issueInfo.number # 2},
                         v \in PipelineValidations }
  /\ securityReport \in PipelineSecurityReports
  /\ aiSafetyReport \in PipelineAiReports
  /\ report = NoReport
  /\ CheckerIdle
  /\ PackageIdle
  /\ procs = [p \in Procs |-> IdleProc]
  /\ serialized = FALSE
  /\ override \in Overrides
  /\ body = NoBody
  /\ cli = NoCli
  /\ \E seeds \in {0, 1} :
       /\ disk = SeededStore(seeds).fs
       /\ directories = SeededStore(seeds).dirs
       /\ clock = seeds
       /\ startStore = SeededStore(seeds)
       /\ prevBadges = [u \in UserNames |-> BadgeIds(SeededStore(seeds).fs, u)]
  /\ runs = 0
  /\ edits = 0
  /\ lastRun = NoRun

\* variant: the organizer step runs whatever the decision
MayOrganize_always == TRUE

\* the condition of the organizer step: the decision is AUTO_APPROVE, or a
\* maintainer with write access has set an override label
MayOrganize ==
  \/ report # NoReport /\ report.recommendation = "AUTO_APPROVE"
  \/ override = "authorized"

\* the organizer step of the workflow
OrganizeApproved ==
  /\ MayOrganize
  /\ runs = 0
  /\ LET issue == [c \in DOMAIN issueData \ {"kind", "validation"} |-> issueData[c]]
         after == organizeCollection([fs |-> disk, dirs |-> directories], issue, clock + 1)
     IN  /\ disk' = after.fs
         /\ directories' = after.dirs
         /\ lastRun' = [kind |-> "run", issue |-> issue, before |-> disk]
         /\ prevBadges' = [prevBadges EXCEPT ![issue.contactInfo] =
                             BadgeIds(after.fs, issue.contactInfo)]
  /\ clock' = clock + 1
  /\ runs' = 1
  /\ UNCHANGED edits
  /\ UNCHANGED <<engineVars, checkerVars, packageVars, concurrentVars, pipelineVars, cliVars>>

(***************************************************************************)
(* The issue parser followed by the decision:                              *)
(*   node parse-collection-issue.js <issue-json>, then                     *)
(*   node calculate-approval-score.js on its output.                       *)
(***************************************************************************)
ParsePool ==
  { PlainCommand,
    [name |-> <<"R", "u", "n">>, code |-> <<"eval(">>],
    [name |-> <<"G", "e", "t">>, code |-> <<"https://example.org">>],
    [name |-> <<>>, code |-> <<>>] }

\* payloads of the other shapes: JSON null, an object whose list is under
\* another key, bare arrays
OtherPayloads ==
  { [kind |-> "null", commands |-> <<>>],
    [kind |-> "object", commands |-> <<PlainCommand>>],
    [kind |-> "array", commands |-> <<>>],
    [kind |-> "array", commands |-> <<PlainCommand>>],
    [kind |-> "array", commands |-> <<[name |-> <<>>, code |-> <<>>]>>] }

ParseBodies ==
  { [FilledBody(contact, json, count, checklist)
       EXCEPT !.title = head[1], !.collectionName = head[2], !.description = head[3]]
      : head \in {<<Title, <<"F", "o", "r", "m">>, <<"T", "o", "o", "l", "s">>>>,
                  <<Title, <<>>, <<>>>>,
                  <<NoTitle, <<>>, <<>>>>},
        contact \in {<<>>, NoResponse, Alice},
        json \in NoCommandsJson \cup OtherPayloads \cup
                 {CommandsJson(cmds) : cmds \in SeqsUpTo(ParsePool, MaxCommands)} \cup
                 {CommandsJson([i \in 1..(MaxCommands + 1) |-> PlainCommand])},
        count \in {0, MaxCommands},
        checklist \in BOOLEAN }

ParseAiReports ==
  { Null,
    [InitialSafetyReport EXCEPT !.safetyScore = 100, !.riskLevel = "LOW",
                                !.autoApprove = TRUE],
    [InitialSafetyReport EXCEPT !.safetyScore = 45, !.riskLevel = "CRITICAL",
                                !.hasIssues = TRUE, !.issues = <<Sev("CRITICAL")>>] }

ParseInit ==
  /\ body \in ParseBodies
  /\ cli = NoCli
  /\ issueData = Unset
  /\ securityReport \in {Null, processResults(<<>>)}
  /\ aiSafetyReport \in ParseAiReports
  /\ report = NoReport
  /\ CheckerIdle
  /\ OrganizerIdle
  /\ PackageIdle
  /\ override = "none"
  /\ ConcurrentIdle

\* parseIssue on the issue, its output written for the next steps
ParseIssue ==
  /\ issueData = Unset
  /\ body # NoBody
  /\ issueData' = parseIssue(body)
  /\ UNCHANGED <<securityReport, aiSafetyReport, report>>
  /\ UNCHANGED checkerVars
  /\ UNCHANGED organizerVars
  /\ UNCHANGED packageVars
  /\ UNCHANGED concurrentVars
  /\ UNCHANGED pipelineVars
  /\ UNCHANGED cliVars

(***************************************************************************)
(* The organizer on a store that earlier runs have filled: alice's profile *)
(* already lists up to MaxStored collections.                              *)
(***************************************************************************)
MaxStored == 21     \* collections already listed in alice's profile

TimePatterns == {"ascending", "descending", "mixed"}

\* the submission time of the k-th of n stored collections
StoredTime(pattern, k, n) ==
  CASE pattern = "ascending"  -> k
    [] pattern = "descending" -> n + 1 - k
    [] OTHER                  -> (k * 7) % 5

\* a reference updateUserProfile stored for an earlier submission
StoredRef(user, k, submittedAt) ==
  [id           |-> user \o "-stored-" \o ToString(k),
   name         |-> SeedName(k),
   description  |-> "",
   category     |-> "utility",
   commandCount |-> 1,
   submittedAt  |-> submittedAt,
   processedAt  |-> 0,
   fileName     |-> "stored-" \o ToString(k) \o ".json",
   tags         |-> <<>>]

StoredProfile(user, pattern, n) ==
  LET collections == [k \in 1..n |-> StoredRef(user, k, StoredTime(pattern, k, n))]
      profile     == NewProfile([contactInfo |-> user, metadata |-> [author |-> ""]], 0)
  IN  awardBadges([profile EXCEPT !.collections = collections,
                                  !.stats.totalCollections = n,
                                  !.stats.totalCommands = n], 0)

StoredStore(pattern, n) ==
  IF n = 0 THEN [fs |-> <<>>, dirs |-> {".git"}]
  ELSE [fs   |-> WriteFile(<<>>, ProfilePath("alice"), StoredProfile("alice", pattern, n)),
        dirs |-> {".git", "alice"}]

IndexInit ==
  /\ issueData = Unset
  /\ securityReport = Unset
  /\ aiSafetyReport = Unset
  /\ report = NoReport
  /\ CheckerIdle
  /\ \E pattern \in TimePatterns, n \in {0, MaxStored - 1, MaxStored} :
       /\ disk = StoredStore(pattern, n).fs
       /\ directories = StoredStore(pattern, n).dirs
       /\ prevBadges = [u \in UserNames |-> BadgeIds(StoredStore(pattern, n).fs, u)]
  /\ clock = 0
  /\ runs = 0
  /\ edits = 0
  /\ lastRun = NoRun
  /\ PackageIdle
  /\ override = "none"
  /\ body = NoBody
  /\ cli = NoCli
  /\ ConcurrentIdle

(***************************************************************************)
(* The command-line entry points of the tools: what a run prints on        *)
(* stdout and the code it exits with.                                      *)
(***************************************************************************)
\* how a tool is started: without its required argument, on a file
\* that does not exist, on a file JSON.parse rejects, or on a proper input
Invocations == {"no-argument", "no-file", "unparsable", "given"}

NoOutput == [kind |-> "nothing"]

CliRun(tool, invocation, exitCode, output) ==
  [kind |-> "run", tool |-> tool, invocation |-> invocation, exitCode |-> exitCode,
   emitted |-> output # NoOutput, output |-> output]

\* CommandValidator.getResult / calculateScore, errors and warnings by number
getResult(errorCount, warningCount) ==
  [kind |-> "validation", valid |-> errorCount = 0, errors |-> errorCount,
   warnings |-> warningCount,
   score |-> Max(0, 100 - errorCount * 20 - warningCount * 5)]

CliIdle ==
  /\ issueData = Unset
  /\ securityReport = Unset
  /\ aiSafetyReport = Unset
  /\ report = NoReport
  /\ CheckerIdle
  /\ OrganizerIdle
  /\ PackageIdle
  /\ override = "none"
  /\ body = NoBody
  /\ ConcurrentIdle

CliInit ==
  /\ CliIdle
  /\ cli = NoCli

CliFrame ==
  /\ UNCHANGED <<engineVars, checkerVars, organizerVars, packageVars, concurrentVars>>
  /\ UNCHANGED pipelineVars

\* node calculate-approval-score.js <issue-data.json> [security-report.json]
\* [ai-safety-report.json]: loadJsonFile gives null for a file that is
\* missing or does not parse, and issueData.validation then throws
RunCalculateApprovalScore ==
  /\ cli = NoCli
  /\ \E invocation \in Invocations :
       IF invocation = "given"
       THEN \E v \in ValidationInputs, sec \in PipelineSecurityReports, ai \in ParseAiReports :
              cli' = CliRun("calculate-approval-score", invocation, 0,
                            calculateApprovalScore(
                              IssueDataOf(v, [i \in 1..v[3] |-> PlainCommand]), sec, ai))
       ELSE cli' = CliRun("calculate-approval-score", invocation, 1, NoOutput)
  /\ CliFrame

\* node process-codeql-results.js <codeql-results.json>
RunProcessCodeQLResults ==
  /\ cli = NoCli
  /\ \E invocation \in Invocations :
       IF invocation = "given"
       THEN \E findings \in SeqsUpTo(FindingKinds, MaxFindings) :
              LET rep == processResults(findings)
              IN  cli' = CliRun("process-codeql-results", invocation,
                                IF rep.securityScore < 80 THEN 1 ELSE 0, rep)
       ELSE cli' = CliRun("process-codeql-results", invocation, 1, NoOutput)
  /\ CliFrame

\* node parse-collection-issue.js <issue-json>: the issue is the argument
\* itself or stdin, there is no file to miss
RunParseIssue ==
  /\ cli = NoCli
  /\ \E invocation \in Invocations \ {"no-file"} :
       IF invocation = "given"
       THEN \E b \in SafetyBodies :
              cli' = CliRun("parse-collection-issue", invocation, 0, parseIssue(b))
       ELSE cli' = CliRun("parse-collection-issue", invocation, 1, NoOutput)
  /\ CliFrame

\* node validate-command.js <path-to-command.js>: a file that does not
\* exist is the error 'File does not exist' of the result
RunValidateCommand ==
  /\ cli = NoCli
  /\ \E invocation \in {"no-argument", "no-file", "given"} :
       CASE invocation = "no-argument" ->
              cli' = CliRun("validate-command", invocation, 1, NoOutput)
         [] invocation = "no-file" ->
              cli' = CliRun("validate-command", invocation, 1, getResult(1, 0))
         [] OTHER ->
              \E e \in 0..MaxErrors, w \in 0..MaxWarnings :
                cli' = CliRun("validate-command", invocation,
                              IF getResult(e, w).valid THEN 0 ELSE 1, getResult(e, w))
  /\ CliFrame

vars == <<engineVars, checkerVars, organizerVars, packageVars, concurrentVars, pipelineVars,
          cliVars>>

Next == CalculateApprovalScore

Spec == Init /\ [][Next]_vars

SafetyNext ==
  \/ StartSafetyCheck
  \/ AnalyzeCommand
  \/ ApiEnd
  \/ ApiError
  \/ ApiTimeout
  \/ ResumeAnalyze
  \/ FinishSafetyCheck
  \/ AnalyzeSafety
  \/ ProcessCodeQLResults
  \/ CalculateApprovalScore

SafetySpec == SafetyInit /\ [][SafetyNext]_vars

OrganizeNext ==
  \/ OrganizeCollection
  \/ ProfileCorrupted
  \/ ProfileStatsDrift

OrganizeSpec == OrganizeInit /\ [][OrganizeNext]_vars

PackageNext ==
  \/ CreatePackage
  \/ ExportPackage
  \/ AlterPackageFile
  \/ ImportPackage

PackageSpec == PackageInit /\ [][PackageNext]_vars

ConcurrentNext ==
  \/ \E p \in Procs : Begin(p)
  \/ \E p \in Procs : MakeDirectories(p)
  \/ \E p \in Procs : WriteCollectionFile(p)
  \/ \E p \in Procs : WriteCommandFile(p)
  \/ \E p \in Procs : WriteLevelUpFile(p)
  \/ \E p \in Procs : ReadProfile(p)
  \/ \E p \in Procs : WriteProfile(p)
  \/ \E p \in Procs : ReadDirectory(p)
  \/ \E p \in Procs : ScanProfile(p)
  \/ \E p \in Procs : WriteIndex(p)

ConcurrentSpec == ConcurrentInit /\ [][ConcurrentNext]_vars

PipelineNext ==
  \/ CalculateApprovalScore
  \/ OrganizeApproved

PipelineSpec == PipelineInit /\ [][PipelineNext]_vars

ParseNext ==
  \/ ParseIssue
  \/ CalculateApprovalScore

ParseSpec == ParseInit /\ [][ParseNext]_vars

IndexNext == OrganizeCollection

IndexSpec == IndexInit /\ [][IndexNext]_vars

CliNext ==
  \/ RunCalculateApprovalScore
  \/ RunProcessCodeQLResults
  \/ RunParseIssue
  \/ RunValidateCommand

CliSpec == CliInit /\ [][CliNext]_vars

(***************************************************************************)
(* Properties of the decision engine.                                      *)
(***************************************************************************)
Decided == report.kind = "report"

ValidationHasErrors == issueData.validation.errors >= 1
StaticBlockingFinding ==
  /\ securityReport.kind = "codeql"
  /\ \E i \in 1..Len(securityReport.issues) : securityReport.issues[i].category = "security"
AiCriticalFinding ==
  /\ aiSafetyReport.kind = "ai"
  /\ aiSafetyReport.hasIssues
  /\ \E i \in 1..Len(aiSafetyReport.issues) : aiSafetyReport.issues[i].severity = "CRITICAL"
StaticRiskCritical == securityReport.kind = "codeql" /\ securityReport.riskLevel = "CRITICAL"
AiRiskCritical     == aiSafetyReport.kind = "ai" /\ aiSafetyReport.riskLevel = "CRITICAL"
ScoreBelowReject   == report.overallScore < 30

AnyBlockingPredicate ==
  \/ ValidationHasErrors
  \/ StaticBlockingFinding
  \/ AiCriticalFinding
  \/ StaticRiskCritical
  \/ AiRiskCritical
  \/ ScoreBelowReject

FirstBlockingReason ==
  IF ValidationHasErrors THEN "Validation errors detected"
  ELSE IF StaticBlockingFinding THEN "Security vulnerabilities detected by CodeQL"
  ELSE IF AiCriticalFinding THEN "Critical security issues detected by AI analysis"
  ELSE IF StaticRiskCritical THEN "Critical security risk level (CodeQL)"
  ELSE IF AiRiskCritical THEN "Critical AI safety risk level"
  ELSE "Overall score (" \o ToString(report.overallScore)
         \o ") below rejection threshold (30)"

\* C2: whenever at least one blocking predicate holds, the decision is REJECT,
\* autoApprove is false, and the only recorded reason is that of the first
\* predicate that holds in the declared order.
C2_BlockingRejectsWithFirstReason ==
  (Decided /\ AnyBlockingPredicate) =>
     /\ report.recommendation = "REJECT"
     /\ report.autoApprove = FALSE
     /\ report.details.issues = <<FirstBlockingReason>>

\* a decision where several predicates hold and the first is not the only one
C2_Witness ==
  /\ Decided
  /\ ~ValidationHasErrors /\ ~StaticBlockingFinding
  /\ AiCriticalFinding /\ AiRiskCritical /\ ScoreBelowReject
  /\ report.details.issues = <<"Critical security issues detected by AI analysis">>

StaticClears == securityReport.kind = "codeql" /\ securityReport.securityScore >= 80
AiClears ==
  /\ aiSafetyReport.kind = "ai"
  /\ aiSafetyReport.safetyScore >= 75
  /\ aiSafetyReport.autoApprove = TRUE
NoHighOrCriticalFinding ==
  /\ securityReport.kind = "codeql" =>
       \A i \in 1..Len(securityReport.issues) : securityReport.issues[i].severity # "error"
  /\ (aiSafetyReport.kind = "ai" /\ aiSafetyReport.hasIssues) =>
       \A i \in 1..Len(aiSafetyReport.issues) :
          aiSafetyReport.issues[i].severity \notin {"HIGH", "CRITICAL"}

C4_ExampleA ==
  ( /\ Decided
    /\ issueData.validation.score = 100
    /\ issueData.validation.errors = 0
    /\ Len(issueData.commands) = 3
    /\ securityReport = Null
    /\ aiSafetyReport.kind = "ai"
    /\ aiSafetyReport.safetyScore = 90
    /\ aiSafetyReport.riskLevel = "LOW"
    /\ aiSafetyReport.autoApprove = TRUE
    /\ aiSafetyReport.issues = <<>> )
  => /\ report.overallScore >= 80
     /\ ~AnyBlockingPredicate
     /\ report.recommendation = "AUTO_APPROVE"

(***************************************************************************)
(* Properties of the AI safety check.                                      *)
(***************************************************************************)
CheckDone == checkStatus = "done" /\ aiSafetyReport.kind = "ai"

\* some command report of the AI safety report carries a CRITICAL finding
CommandReportHasCritical ==
  \E k \in 1..Len(aiSafetyReport.commandReports) :
    \E j \in 1..Len(aiSafetyReport.commandReports[k].issues) :
      LET issue == aiSafetyReport.commandReports[k].issues[j]
      IN  ~IsNullIssue(issue) /\ issue.severity = "CRITICAL"

EarlierBlockingReasons ==
  {"Validation errors detected", "Security vulnerabilities detected by CodeQL"}

\* C1: a report of performSafetyCheck in which a command report carries a
\* CRITICAL finding, or whose riskLevel is CRITICAL, is decided REJECT with a
\* blocking reason recorded (that of the AI finding or risk level unless an
\* earlier predicate holds), whatever the validation and the static report.
C1_CriticalReportRejected ==
  (Decided /\ CheckDone /\ (CommandReportHasCritical \/ AiRiskCritical)) =>
     /\ report.recommendation = "REJECT"
     /\ \E i \in 1..Len(report.details.issues) :
          report.details.issues[i] \in
            EarlierBlockingReasons \cup
              {"Critical security issues detected by AI analysis",
               "Critical security risk level (CodeQL)",
               "Critical AI safety risk level"}

ReportsOfCommand(k) ==
  {j \in 1..Len(safetyReport.commandReports) :
     safetyReport.commandReports[j].commandIndex = k - 1}

\* C10: per command the API is called at most once and its promise settles
\* at most once; once the command's iteration is over exactly one report of
\* it is in the aggregated report: the AI response when the promise resolved,
\* the pattern scanner's report when it was rejected; the check fails as a
\* whole only when the submission has no command.
C10_ExactlyOneReportPerCommand ==
  /\ \A k \in 1..Len(promises) : promises[k].calls <= 1 /\ promises[k].settles <= 1
  /\ checkStatus = "failed" => issueData.commands = <<>>
  /\ checkStatus \in {"running", "awaiting", "done"} =>
       \A k \in 1..checkIndex :
         /\ Cardinality(ReportsOfCommand(k)) = 1
         /\ LET command == issueData.commands[k]
                rep     == safetyReport.commandReports[CHOOSE j \in ReportsOfCommand(k) : TRUE]
            IN  /\ promises[k].state = "resolved" =>
                     /\ rep.safetyScore = promises[k].value.safetyScore
                     /\ rep.issues = promises[k].value.issues
                /\ promises[k].state = "rejected" =>
                     rep = simulateAIAnalysis(command, k - 1, command.code)

\* the scores an input of the engine can carry: a validation score is what
\* calculateValidationScore yields (a multiple of 5), an analyzer score an integer
ScoreRange(k) ==
  IF k = "validation" THEN {5 * n : n \in 0..20} ELSE 0..100

\* is the input whose score is scores[k] present
ScorePresent(k) ==
  CASE k = "validation" -> TRUE
    [] k = "security"   -> ~IsNull(securityReport)
    [] k = "aiSafety"   -> ~IsNull(aiSafetyReport)

\* C16: with the weights fixed, replacing the score of any one present input
\* by a higher score in [0,100] and leaving the other two as they are gives an
\* overall score that is not lower than the one the engine computed.
C16_WeightedScoreMonotonic ==
  Decided =>
    \A k \in {"validation", "security", "aiSafety"} :
      ScorePresent(k) =>
        \A x \in ScoreRange(k) :
          x >= report.scores[k] =>
            calculateWeightedScore([report.scores EXCEPT ![k] = x]) >= report.overallScore

\* a decided run with all three inputs present, none at its maximum, whose
\* overall score goes up when one score is raised
C16_Witness ==
  /\ Decided
  /\ \A k \in {"validation", "security", "aiSafety"} :
       ScorePresent(k) /\ report.scores[k] < 100
  /\ calculateWeightedScore([report.scores EXCEPT !.aiSafety = 100]) > report.overallScore

(***************************************************************************)
(* Properties of the organizer.                                            *)
(***************************************************************************)
\* a file with its time stamps blanked
StripTimestamps(content) ==
  CASE content.kind = "collection" ->
         [content EXCEPT !.processedAt = 0,
            !.commands = [k \in 1..Len(@) |-> [@[k] EXCEPT !.createdAt = 0]]]
    [] content.kind = "levelup" -> [content EXCEPT !.exportedAt = 0]
    [] content.kind = "command" -> [content EXCEPT !.processedAt = 0]
    [] content.kind = "profile" ->
         [content EXCEPT !.joinedAt = 0,
            !.collections = [k \in 1..Len(@) |-> [@[k] EXCEPT !.processedAt = 0]],
            !.badges = [k \in 1..Len(@) |-> [@[k] EXCEPT !.awardedAt = 0]]]
    [] content.kind = "index" ->
         [content EXCEPT !.generatedAt = 0,
            !.users = [k \in 1..Len(@) |-> [@[k] EXCEPT !.joinedAt = 0]],
            !.recentCollections = [k \in 1..Len(@) |-> [@[k] EXCEPT !.processedAt = 0]]]
    [] OTHER -> content

SameButTimestamps(fs1, fs2) ==
  /\ DOMAIN fs1 = DOMAIN fs2
  /\ \A path \in DOMAIN fs1 : StripTimestamps(fs1[path]) = StripTimestamps(fs2[path])

RanFor(user) == lastRun.kind = "run" /\ lastRun.issue.contactInfo = user

\* the positions of the profile's references that carry the given id
RefsWithId(fs, user, id) ==
  {k \in 1..Len(fs[ProfilePath(user)].collections) :
     fs[ProfilePath(user)].collections[k].id = id}

CollectionPathOf(issue) ==
  issue.contactInfo \o "/collections/" \o Join(sanitizeFileName(issue.metadata.name))
    \o ".json"

\* C5: when organizeCollection runs twice in a row on the same parsed
\* submission, the second run leaves the collection id and the command ids as
\* they were, leaves every file of the store (collection, import, command
\* files, profile, index) as it was except for time stamps, and the profile
\* holds exactly one reference with the collection's id.
C5_RerunIsIdempotent ==
  [][(/\ runs' = runs + 1
      /\ lastRun.kind = "run"
      /\ lastRun'.issue = lastRun.issue)
     => LET issue == lastRun.issue
            path  == CollectionPathOf(issue)
        IN  /\ disk'[path].id = disk[path].id
            /\ [k \in 1..Len(disk'[path].commands) |-> disk'[path].commands[k].id]
                 = [k \in 1..Len(disk[path].commands) |-> disk[path].commands[k].id]
            /\ SameButTimestamps(disk, disk')
            /\ directories' = directories
            /\ Cardinality(RefsWithId(disk', issue.contactInfo,
                                      generateCollectionId(issue))) = 1]_vars

\* a run has just rewritten a store that already held this submission, and
\* only time stamps changed
C5_Witness ==
  /\ lastRun.kind = "run"
  /\ runs >= 2
  /\ Exists(lastRun.before, CollectionPathOf(lastRun.issue))
  /\ lastRun.before[CollectionPathOf(lastRun.issue)].processedAt
       < disk[CollectionPathOf(lastRun.issue)].processedAt
  /\ SameButTimestamps(lastRun.before, disk)

\* the references of a profile that stem from one issue (submitter and number),
\* whatever name the collection had
RefsOfIssue(fs, user, origin) ==
  {k \in 1..Len(fs[ProfilePath(user)].collections) :
     \E name \in CollectionNames :
        fs[ProfilePath(user)].collections[k].id
          = generateCollectionId(ParsedIssue(origin, name, "", <<>>, <<>>))}

\* C6: whatever was edited between the runs for one issue, a profile never
\* holds more than one collection reference for that issue.
C6_OneReferencePerIssue ==
  \A user \in UserNames :
    Readable(disk, user) =>
      \A origin \in Origins : Cardinality(RefsOfIssue(disk, user, origin)) <= 1

StatsMatchCollections(profile) ==
  /\ profile.stats.totalCollections = Len(profile.collections)
  /\ profile.stats.totalCommands =
       SumSeq([k \in 1..Len(profile.collections) |-> profile.collections[k].commandCount])

\* C8: the profile a run has written has totalCollections equal to the number
\* of its collection references and totalCommands equal to the sum of their
\* commandCount, whatever stats the profile held before.
C8_StatsRecomputed ==
  \A user \in UserNames :
    RanFor(user) => StatsMatchCollections(disk[ProfilePath(user)])

\* the run found a profile whose stats did not match its collection list
C8_Witness ==
  \E user \in UserNames :
    /\ RanFor(user)
    /\ Readable(lastRun.before, user)
    /\ ~StatsMatchCollections(lastRun.before[ProfilePath(user)])
    /\ Len(disk[ProfilePath(user)].collections) >= 2

UserSeq == <<"alice", "bob">>
CategorySeq == <<"forms", "grids", "utility">>

ReadableUsers == {user \in directories \ {".git"} : Readable(disk, user)}

\* the sum over the readable profiles on disk of what Of yields for each
SumOverProfiles(Of(_)) ==
  SumSeq([k \in 1..Len(UserSeq) |->
            IF UserSeq[k] \in ReadableUsers THEN Of(disk[ProfilePath(UserSeq[k])]) ELSE 0])

TotalCollectionsOf(profile) == profile.stats.totalCollections
TotalCommandsOf(profile) == profile.stats.totalCommands
ReferencesOf(profile) == Len(profile.collections)

\* C9: after a run the index states as totalUsers the number of user
\* directories with a readable profile, as totalCollections and totalCommands
\* the sums of those profiles' stats, and its category counts add up to the
\* number of collection references in those profiles.
C9_IndexFromProfiles ==
  lastRun.kind = "run" =>
    LET index == disk[IndexPath]
    IN  /\ index.totalUsers = Cardinality(ReadableUsers)
        /\ index.totalCollections = SumOverProfiles(TotalCollectionsOf)
        /\ index.totalCommands = SumOverProfiles(TotalCommandsOf)
        /\ DOMAIN index.categories \subseteq {CategorySeq[k] : k \in 1..Len(CategorySeq)}
        /\ SumSeq([k \in 1..Len(CategorySeq) |->
                     IF CategorySeq[k] \in DOMAIN index.categories
                     THEN index.categories[CategorySeq[k]] ELSE 0])
             = SumOverProfiles(ReferencesOf)

\* the run rebuilt an index that existed, next to a user directory whose
\* profile cannot be read
C9_Witness ==
  /\ lastRun.kind = "run"
  /\ Exists(lastRun.before, IndexPath)
  /\ \E user \in directories \ {".git"} : ~Readable(disk, user)
  /\ disk[IndexPath].totalUsers >= 1
  /\ disk[IndexPath].totalCollections >= 5

(***************************************************************************)
(* Properties of the package manager.                                      *)
(***************************************************************************)
HasNameAndCode(command) ==
  /\ OrElse(Get(command, "name"), "") # ""
  /\ OrElse(Get(command, "code"), "") # ""

\* what identifies the commands of a package: their names and codes, in order
CommandSet(commands) ==
  [k \in 1..Len(commands) |-> <<commands[k].name, commands[k].code>>]

\* C11: when a package made from a non-empty list of commands that all have a
\* name and code was exported and the untouched file was imported, the import
\* returned a package with the commands and the package metadata of the
\* package that was exported.
C11_RoundTrip ==
  (/\ importResult # Null
   /\ packageAltered = "no"
   /\ rawCommands # <<>>
   /\ \A k \in 1..Len(rawCommands) : HasNameAndCode(rawCommands[k]))
  => /\ importResult.kind = "package"
     /\ CommandSet(importResult.package.commands) = CommandSet(pkg.commands)
     /\ importResult.package.packageInfo = pkg.packageInfo

ChecksumMismatch == "Invalid package file: Package checksum mismatch - data may be corrupted"

\* C12: when the command list of the exported file was altered before the
\* import, the import threw the checksum-mismatch error and returned no package.
C12_AlteredListRejected ==
  (importResult # Null /\ packageAltered # "no")
  => /\ importResult.kind = "error"
     /\ importResult.message = ChecksumMismatch

(***************************************************************************)
(* Properties of concurrent runs of the organizer.                         *)
(***************************************************************************)
AllDone == \A p \in Procs : procs[p].pc = "done"

SameUser == UserDirOf(1) = UserDirOf(2)

\* the profile of the run's user holds a reference to the run's collection
HoldsRef(p) ==
  /\ Readable(disk, UserDirOf(p))
  /\ RefsWithId(disk, UserDirOf(p), generateCollectionId(procs[p].issue)) # {}

\* C13: when two runs for different collections of one user have both
\* finished, the profile holds the reference of at least one of them, and it
\* holds both whenever the runs for that user directory were serialized; the
\* loss of one reference is what unserialized runs can end in (the witness).
C13_SerializedKeepsBoth ==
  (AllDone /\ SameUser)
  => /\ \E p \in Procs : HoldsRef(p)
     /\ serialized => \A p \in Procs : HoldsRef(p)

\* unserialized runs have finished and the profile lacks one of the references
C13_Witness ==
  /\ AllDone
  /\ SameUser
  /\ ~serialized
  /\ \E p \in Procs : ~HoldsRef(p)

WithoutIndex(fs) == [path \in DOMAIN fs \ {IndexPath} |-> fs[path]]

\* the store after the two runs ran one after the other, first then second
Sequential(first, second) ==
  organizeCollection(
    organizeCollection(startStore, procs[first].issue, procs[first].now),
    procs[second].issue, procs[second].now)

\* C14: when two runs for different users have both finished, however their
\* file reads and writes were interleaved, every file of the two user
\* directories (profile, collection files, command files) is what running the
\* two one after the other, in either order, leaves.
C14_NamespacesIndependent ==
  (AllDone /\ ~SameUser)
  => /\ WithoutIndex(disk) = WithoutIndex(Sequential(1, 2).fs)
     /\ WithoutIndex(disk) = WithoutIndex(Sequential(2, 1).fs)
     /\ directories = Sequential(1, 2).dirs

\* runs for two users have finished after overlapping: the index written last
\* was built before the other user's profile existed
C14_Witness ==
  /\ AllDone
  /\ ~SameUser
  /\ \A p \in Procs : Readable(disk, UserDirOf(p))
  /\ disk[IndexPath].totalUsers = 1

(***************************************************************************)
(* Properties of the processing of one issue.                              *)
(***************************************************************************)
StoreUntouched == disk = startStore.fs /\ directories = startStore.dirs

\* C15: as long as the decision for the submission is not AUTO_APPROVE (it is
\* pending, MANUAL_REVIEW or REJECT) and no authorized override is set, no
\* file or directory of the store has been created or changed.
C15_OrganizedOnlyWhenApproved ==
  (/\ ~(report # NoReport /\ report.recommendation = "AUTO_APPROVE")
   /\ override # "authorized")
  => StoreUntouched

\* the organizer has run after an AUTO_APPROVE decision, without an override
C15_Witness ==
  /\ report # NoReport
  /\ report.recommendation = "AUTO_APPROVE"
  /\ override = "none"
  /\ runs = 1
  /\ ~StoreUntouched

(***************************************************************************)
(* Properties of the issue parser and of the examples of the decision.     *)
(***************************************************************************)
DynamicCode(command) ==
  \E i \in 1..Len(command.code) : command.code[i] \in {"eval(", "new Function("}

HasDynamicCode ==
  issueData # Unset /\
  \E k \in 1..Len(issueData.commands) : DynamicCode(issueData.commands[k])

\* C18 (Example B): when some command of the submission calls eval or the
\* Function constructor, the report of the safety check carries a CRITICAL
\* finding and the decision is REJECT, whatever the scores are.
C18_DynamicCodeRejected ==
  (CheckDone /\ HasDynamicCode) =>
     /\ CommandReportHasCritical
     /\ Decided => report.recommendation = "REJECT"

Parsed == issueData # Unset /\ body # NoBody

PayloadMissing ==
  body # NoBody /\ body.commandsJson.kind \in {"missing", "malformed", "object"}

\* C19 (Example C): a submission whose commands payload is missing or does
\* not parse gets a validation error and a validation score of at most 75,
\* and is never decided AUTO_APPROVE, whatever the analyzer reports contain.
C19_MissingPayloadNeverApproved ==
  (Parsed /\ PayloadMissing) =>
     /\ issueData.validation.errors >= 1
     /\ ~issueData.validation.valid
     /\ issueData.validation.score <= 75
     /\ Decided => (report.recommendation # "AUTO_APPROVE" /\ report.autoApprove = FALSE)

\* a submission complete but for its payload, with the best reports, is rejected
C19_Witness ==
  /\ Parsed
  /\ PayloadMissing
  /\ issueData.validation.errors = 1
  /\ issueData.validation.score = 75
  /\ securityReport # Null
  /\ aiSafetyReport # Null
  /\ aiSafetyReport.safetyScore = 100
  /\ Decided
  /\ report.recommendation = "REJECT"

RawValidationScore ==
  100 - 25 * Len(ValidationErrors(body)) - 10 * Len(ValidationWarnings(body))
      + (IF Len(extractCommands(body)) >= 3 THEN 5 ELSE 0)

\* C20: every validation result of validateCollection has valid true exactly
\* when no error was recorded, and its score is 100 - 25 per error - 10 per
\* warning + 5 for three commands or more, brought into 0..100.
C20_ValidationWellFormed ==
  Parsed =>
     /\ issueData.validation.valid <=> (ValidationErrors(body) = <<>>)
     /\ issueData.validation.score \in 0..100
     /\ issueData.validation.score =
          (IF RawValidationScore < 0 THEN 0
           ELSE IF RawValidationScore > 100 THEN 100 ELSE RawValidationScore)

\* a submission whose deductions exceed 100 points has been parsed
C20_Witness ==
  /\ Parsed
  /\ RawValidationScore < 0
  /\ issueData.validation.score = 0
  /\ ~issueData.validation.valid

(***************************************************************************)
(* Properties of the index.                                                *)
(***************************************************************************)
StoredIndex == disk[IndexPath]

\* the collection references of all profiles the scan reads, as index entries
AllEntries ==
  LET profiles == ScannedProfiles(disk, directories)
      entries  == Flatten([k \in 1..Len(profiles) |-> ProfileEntries(profiles[k])])
  IN  {entries[k] : k \in 1..Len(entries)}

RecentEntries ==
  {StoredIndex.recentCollections[k] : k \in 1..Len(StoredIndex.recentCollections)}

\* C21: after a run has rebuilt the index, recentCollections holds at most
\* 20 entries, in non-increasing order of submittedAt, all of them references
\* of the profiles; a reference is left out only when the list is full, and
\* none left out was submitted later than one that is included.
C21_RecentCollectionsMostRecent ==
  lastRun.kind = "run" =>
    LET recent == StoredIndex.recentCollections
    IN  /\ Len(recent) <= RecentLimit
        /\ \A k \in 1..(Len(recent) - 1) : recent[k].submittedAt >= recent[k + 1].submittedAt
        /\ RecentEntries \subseteq AllEntries
        /\ Cardinality(RecentEntries) = Len(recent)
        /\ AllEntries # RecentEntries => Len(recent) = RecentLimit
        /\ \A out \in AllEntries \ RecentEntries : \A in \in RecentEntries :
             out.submittedAt <= in.submittedAt

\* a run has rebuilt the index over more than 20 references of two authors
C21_Witness ==
  /\ lastRun.kind = "run"
  /\ Cardinality(AllEntries) > RecentLimit
  /\ Len(StoredIndex.recentCollections) = RecentLimit
  /\ \E a, b \in RecentEntries : a.username # b.username
  /\ \E out \in AllEntries \ RecentEntries : \E in \in RecentEntries :
       out.submittedAt < in.submittedAt

(***************************************************************************)
(* Properties of the decision: documented criteria and report shape.       *)
(***************************************************************************)
\* C22: a decision of AUTO_APPROVE is reached only when the overall score is
\* at least 80, no critical security issue and no validation error was
\* found, the static security score is at least 80 and the AI safety score
\* is at least 75, all together (docs/AUTOMATED_PROCESSING.md).
C22_AutoApproveCriteria ==
  (Decided /\ report.recommendation = "AUTO_APPROVE") =>
     /\ report.overallScore >= 80
     /\ ~StaticBlockingFinding
     /\ ~AiCriticalFinding
     /\ ~ValidationHasErrors
     /\ securityReport.kind = "codeql" /\ securityReport.securityScore >= 80
     /\ aiSafetyReport.kind = "ai" /\ aiSafetyReport.safetyScore >= 75

(***************************************************************************)
(* Properties of the command-line tools.                                   *)
(***************************************************************************)
PreconditionFailed == cli.invocation \in {"no-argument", "no-file", "unparsable"}

\* C23: a tool exits with a code other than 0 only when its argument or its
\* input file is missing (or unreadable) or, for the validator, when the
\* validation failed; a tool that has parsed its input and printed its
\* result exits with 0, whatever the result holds.
C23_ExitCodes ==
  cli.kind = "run" =>
     /\ cli.exitCode # 0 =>
          \/ PreconditionFailed
          \/ cli.tool = "validate-command" /\ ~cli.output.valid
     /\ (cli.tool # "validate-command" /\ ~PreconditionFailed /\ cli.emitted) =>
          cli.exitCode = 0

(***************************************************************************)
(* Properties of the analyzer reports.                                     *)
(***************************************************************************)
HasCritical(issues) ==
  \E j \in 1..Len(issues) : ~IsNullIssue(issues[j]) /\ issues[j].severity = "CRITICAL"

HasSevere(issues) ==
  \E j \in 1..Len(issues) : issues[j].severity \in {"HIGH", "CRITICAL"}

\* the command reports the pattern scanner produced: those of the commands
\* whose request was rejected
ScannerReports ==
  {k \in 1..Len(safetyReport.commandReports) :
     /\ promises[safetyReport.commandReports[k].commandIndex + 1].state = "rejected"
     /\ safetyReport.commandReports[k].summary # "Analysis failed"}

RuleBasedDone == checkStatus = "rules" /\ aiSafetyReport # Unset

\* score >= 75 and no CRITICAL finding
HintRule(score, issues) == score >= 75 /\ ~HasCritical(issues)

\* C24 as stated: autoApprove is true exactly when the score is at least 75
\* and no finding is CRITICAL, in the scanner's report of a command, in the
\* aggregated report of the collection and in the rule-based checker's report.
C24_AutoApproveHint ==
  /\ checkStatus \in {"running", "awaiting", "done"} =>
       \A k \in ScannerReports :
         LET c == safetyReport.commandReports[k]
         IN  c.autoApprove <=> HintRule(c.safetyScore, c.issues)
  /\ CheckDone =>
       (aiSafetyReport.autoApprove <=>
          /\ aiSafetyReport.safetyScore >= 75
          /\ ~CommandReportHasCritical)
  /\ RuleBasedDone =>
       (aiSafetyReport.autoApprove <=>
          HintRule(aiSafetyReport.safetyScore, aiSafetyReport.issues))

\* C24 as the code has it: the scanner's report of a command carries
\* autoApprove = true exactly when its score is at least 75 and no finding is
\* CRITICAL; the aggregated report exactly when, in addition, every command
\* report carries autoApprove = true; the rule-based checker's report exactly
\* when its score is at least 75 and no finding is HIGH or CRITICAL.
C24_AutoApproveHintAmended ==
  /\ checkStatus \in {"running", "awaiting", "done"} =>
       \A k \in ScannerReports :
         LET c == safetyReport.commandReports[k]
         IN  c.autoApprove <=> HintRule(c.safetyScore, c.issues)
  /\ CheckDone =>
       (aiSafetyReport.autoApprove <=>
          /\ aiSafetyReport.safetyScore >= 75
          /\ ~CommandReportHasCritical
          /\ \A k \in 1..Len(aiSafetyReport.commandReports) :
               aiSafetyReport.commandReports[k].autoApprove)
  /\ RuleBasedDone =>
       (aiSafetyReport.autoApprove <=>
          aiSafetyReport.safetyScore >= 75 /\ ~HasSevere(aiSafetyReport.issues))

\* a collection scanned without the API whose mean score is at least 75 and
\* that has no CRITICAL finding is held back by one command's report
C24_Witness ==
  /\ CheckDone
  /\ ~githubToken
  /\ aiSafetyReport.safetyScore >= 75
  /\ ~CommandReportHasCritical
  /\ \E k \in 1..Len(aiSafetyReport.commandReports) :
       ~aiSafetyReport.commandReports[k].autoApprove
  /\ ~aiSafetyReport.autoApprove

\* C25: the riskLevel of every analyzer report follows the one ladder
\* score >= 90 LOW, >= 70 MEDIUM, >= 50 HIGH, else CRITICAL: the aggregated
\* report of the AI / pattern-scanner check and each of the scanner's command
\* reports, the static-analysis report, and the rule-based checker's report.
C25_OneRiskLadder ==
  /\ checkStatus \in {"running", "awaiting", "done"} =>
       \A k \in ScannerReports :
         LET c == safetyReport.commandReports[k]
         IN  c.riskLevel = determineRiskLevel(c.safetyScore)
  /\ CheckDone => aiSafetyReport.riskLevel = determineRiskLevel(aiSafetyReport.safetyScore)
  /\ (securityReport # Unset /\ securityReport # Null) =>
       securityReport.riskLevel = determineRiskLevel(securityReport.securityScore)
  /\ RuleBasedDone => aiSafetyReport.riskLevel = determineRiskLevel(aiSafetyReport.safetyScore)

(***************************************************************************)
(* Properties of the extraction boundary.                                  *)
(***************************************************************************)
ListShaped == body.commandsJson.kind \in {"commands", "array"}

\* C26: extractCommands never throws: parseIssue always returns a parsed
\* issue, whose commands are the list of the payload when the payload is
\* {commands: [...]} or a bare array, and the empty list when the field is
\* absent, does not parse or parses to another shape; whenever the list is
\* empty validateCollection has recorded an error and valid is false.
C26_ExtractCommandsTotal ==
  Parsed =>
     /\ issueData.kind = "issue"
     /\ ListShaped => issueData.commands = body.commandsJson.commands
     /\ ~ListShaped => issueData.commands = <<>>
     /\ issueData.commands = <<>> =>
          (~issueData.validation.valid /\ issueData.validation.errors >= 1)

\* a payload that parses to an object carrying a list under another key
\* yields no command and an invalid submission
C26_Witness ==
  /\ Parsed
  /\ body.commandsJson.kind = "object"
  /\ body.commandsJson.commands # <<>>
  /\ issueData.commands = <<>>
  /\ ~issueData.validation.valid

(***************************************************************************)
(* Properties of the artifacts of one author namespace.                    *)
(***************************************************************************)
CommandArtifactPath(issue, k) ==
  issue.contactInfo \o "/commands/" \o CommandFileName(issue.commands[k], k - 1)

CollectionArtifactPath(issue) ==
  issue.contactInfo \o "/collections/" \o CollectionFileName(issue)

\* the artifact at path is still the one of the command or collection it
\* was written for
SameArtifact(old, new) ==
  /\ new.kind = old.kind
  /\ old.kind = "command" =>
       (new.collectionId = old.collectionId /\ new.commandId = old.commandId)
  /\ old.kind = "collection" => new.id = old.id

\* C27: after every materialization each command of the collection has its
\* own artifact whose body is that command's code, the collection has its
\* own artifact carrying its id, and no artifact that was there before was
\* overwritten by a different command or collection.
C27_OwnArtifacts ==
  lastRun.kind = "run" =>
    LET issue == lastRun.issue
    IN  /\ \A k \in 1..Len(issue.commands) :
             /\ Exists(disk, CommandArtifactPath(issue, k))
             /\ disk[CommandArtifactPath(issue, k)].kind = "command"
             /\ disk[CommandArtifactPath(issue, k)].commandName = issue.commands[k].name
             /\ disk[CommandArtifactPath(issue, k)].code = issue.commands[k].code
        /\ Exists(disk, CollectionArtifactPath(issue))
        /\ disk[CollectionArtifactPath(issue)].kind = "collection"
        /\ disk[CollectionArtifactPath(issue)].id = generateCollectionId(issue)
        /\ \A path \in DOMAIN lastRun.before :
             lastRun.before[path].kind \in {"command", "collection"} =>
               SameArtifact(lastRun.before[path], disk[path])

IndexedUsers == {StoredIndex.users[k].username : k \in 1..Len(StoredIndex.users)}

\* C29: when two runs for different users have both finished, however their
\* file reads and writes were interleaved, the index on disk lists both
\* users and every collection reference of their profiles.
C29_IndexAccountsForBoth ==
  (AllDone /\ ~SameUser)
  => /\ \A p \in Procs : UserDirOf(p) \in IndexedUsers
     /\ StoredIndex.totalUsers = Len(ScannedProfiles(disk, directories))
     /\ AllEntries \subseteq RecentEntries

(***************************************************************************)
(* Properties of the decision record.                                      *)
(***************************************************************************)
ApprovedBanner == "Collection approved for automatic processing!"
ReviewBanner   == "Collection requires manual review before approval."

\* C30: every decision carries one of the three recommendations, autoApprove
\* is true exactly when the recommendation is AUTO_APPROVE, and the first
\* line of the feedback is the approved banner when the flag is set and the
\* needs-review banner when it is not.
C30_DecisionWellFormed ==
  Decided =>
     /\ report.recommendation \in {"AUTO_APPROVE", "MANUAL_REVIEW", "REJECT"}
     /\ report.autoApprove <=> report.recommendation = "AUTO_APPROVE"
     /\ report.feedback # <<>>
     /\ Head(report.feedback) = (IF report.autoApprove THEN ApprovedBanner ELSE ReviewBanner)

\* a score that meets the approval threshold, held for manual review, under
\* the needs-review banner
C30_Witness ==
  /\ Decided
  /\ report.overallScore >= thresholds.autoApprove
  /\ report.recommendation = "MANUAL_REVIEW"
  /\ ~report.autoApprove
  /\ Head(report.feedback) = ReviewBanner

====
